---------------------------- MODULE Spec2Model ----------------------------
(***************************************************************************)
(* Shot-detection engine of the pocket basketball tracker: IMUBuffer,      *)
(* ShotDetector (streaming processSample / batch detectAll) and            *)
(* ShotDetectorConsensus, modelled from core.js.                           *)
(*                                                                         *)
(* Number representation.  aMag values are held as integers in quarters    *)
(* of a m/s^2 (Ms2(x) converts x m/s^2).  A baseline {mean, std} over n    *)
(* samples with sum S and sum of squares Q is held as [n, sum, dev] with   *)
(* dev = n*Q - S*S, so that mean = sum/n and std = sqrt(dev)/n; every      *)
(* comparison of the code against mean + k*std is carried out exactly on   *)
(* the cross-multiplied, squared form.  Sigma multipliers and the std cap  *)
(* are held doubled (_X2) because the source values are halves.            *)
(***************************************************************************)
EXTENDS Integers, Naturals, Sequences, FiniteSets, TLC

VARIABLES
  data,          \* IMUBuffer.data
  totalPushed,   \* IMUBuffer.totalPushed
  offset,        \* IMUBuffer.offset
  maxSize,       \* IMUBuffer.maxSize
  shiftSize,     \* IMUBuffer.shiftSize
  lastShotTime,  \* ShotDetector.lastShotTime
  lastShotIdx,   \* ShotDetector.lastShotIdx
  useConsensus,  \* ShotDetector.useConsensus
  consensusOpts, \* ShotDetector.consensusOpts
  core,          \* which copy of core.js is loaded (its threshold constants)
  input,         \* the recorded signal (parameters of the sample stream)
  liveShots,     \* shots returned so far by streaming processSample
  batchRuns,     \* results of the detectAll calls made so far
  consCall,      \* last call of a ShotDetectorConsensus method, with its result
  calibration,   \* ShotDetector.calibration
  movementDetector, \* the tracker's MovementDetector object
  calibCall,     \* last call of a MotionCalibrator method, with its result
  tracker        \* the tracker page: isRecording, the motion-calibration wizard

vars == <<data, totalPushed, offset, maxSize, shiftSize,
          lastShotTime, lastShotIdx, useConsensus, consensusOpts, core,
          input, liveShots, batchRuns, consCall,
          calibration, movementDetector, calibCall, tracker>>

bufVars == <<data, totalPushed, offset, maxSize, shiftSize>>
detVars == <<lastShotTime, lastShotIdx, useConsensus, consensusOpts, core, calibration>>
\* what the calls of the static methods leave alone
sessionVars == <<bufVars, detVars, input, liveShots, batchRuns, movementDetector, tracker>>

Max(a, b) == IF a >= b THEN a ELSE b
Min(a, b) == IF a <= b THEN a ELSE b

\* least element of a non-empty set of integers
Least(S) == CHOOSE x \in S : \A y \in S : x <= y

\* x m/s^2 in the model's unit (quarters of a m/s^2)
Ms2(x) == 4 * x

(***************************************************************************)
(* IMUBuffer                                                               *)
(***************************************************************************)
DefaultMaxSize == 3000
DefaultShiftSize == 1000

\* slice(k) of a sequence: drops the first k elements
Slice(s, k) == IF k >= Len(s) THEN << >> ELSE SubSeq(s, k + 1, Len(s))

\* IMUBuffer.push as a function of the buffer fields
BufferPush(buf, sample) ==
  LET pushed == Append(buf.data, sample)
      over   == Len(pushed) > buf.maxSize
  IN  [data        |-> IF over THEN Slice(pushed, buf.shiftSize) ELSE pushed,
       totalPushed |-> buf.totalPushed + 1,
       offset      |-> IF over THEN buf.offset + buf.shiftSize ELSE buf.offset,
       maxSize     |-> buf.maxSize,
       shiftSize   |-> buf.shiftSize]

\* variant of absIndex that forgets the shifted-out samples
AbsIndexNoOffset(buf, i) == i

\* IMUBuffer.absIndex
AbsIndex(buf, i) == i + buf.offset

Buffer == [data |-> data, totalPushed |-> totalPushed, offset |-> offset,
           maxSize |-> maxSize, shiftSize |-> shiftSize]


(***************************************************************************)
(* The recorded signal.  A signal is a periodic baseline carrying up to    *)
(* three peak/dip/recovery events (the dip DipLag samples after the peak,  *)
(* the recovery RecLag samples after the dip); indices are 0-based as in   *)
(* the code.                                                               *)
(***************************************************************************)
SigLen == 300        \* samples in the recorded signal
FirstPeak == 104     \* index of the first event's peak
DipLag == 12         \* samples from an event's peak to its dip
RecLag == 20         \* samples from an event's dip to its recovery
ZeroPrefix == 200    \* samples stamped t = 0 by the zero-based clock

\* [peak, dip, rec] of an event, in quarters of a m/s^2
GoodShape == [peak |-> Ms2(20), dip |-> Ms2(2), rec |-> Ms2(15)]
Shapes ==
  { GoodShape,
    [peak |-> Ms2(14),     dip |-> Ms2(6),     rec |-> Ms2(11)],
    [peak |-> Ms2(14) - 1, dip |-> Ms2(2),     rec |-> Ms2(15)],
    [peak |-> Ms2(20),     dip |-> Ms2(7),     rec |-> Ms2(15)],
    [peak |-> Ms2(20),     dip |-> Ms2(6),     rec |-> Ms2(11) - 2],
    [peak |-> Ms2(16),     dip |-> Ms2(2),     rec |-> Ms2(15)] }

\* one period of each baseline: quiet (mean 9.75, std 0.25), noisy
\* (mean 12.25, std 2.5), rough (mean 9, std 2.5), bouncy (mean 9.25, std
\* about 2.8, a 12.5 m/s^2 bounce every fourth sample)
BasePattern(base) ==
  CASE base = "quiet" -> <<38, 38, 40, 40>>
    [] base = "noisy" -> <<29, 54, 54, 54, 54>>
    [] base = "rough" -> <<26, 26, 46, 46>>
    [] base = "bouncy" -> <<26, 26, 46, 50>>
Bases == {"quiet", "noisy", "rough"}

\* offsets of the event peaks from FirstPeak; <<0, 1>> is a flat-topped peak
\* of two equal samples (with a two-sample dip and recovery)
Layouts == { <<0>>, <<0, 1>>, <<0, 30>>, <<0, 59>>, <<0, 60>>, <<0, 125>>,
             <<0, 30, 125>>, <<0, 60, 120>> }

\* clocks: dt ms per sample from a wall-clock epoch, or a zero-based clock
\* (relative timestamps) that stamps its first `zero` samples 0
WallClock == [dt |-> 25, zero |-> 0, epoch |-> 5000]
FastClock == [dt |-> 10, zero |-> 0, epoch |-> 5000]
ZeroClock == [dt |-> 10, zero |-> ZeroPrefix, epoch |-> 0]
Clocks == {WallClock, FastClock, ZeroClock}

\* the recordings analysed: every baseline with every first-event shape, alone
\* or followed by a second event 30 samples later, and every layout of good
\* events on the quiet baseline under every clock
Inputs ==
  [base : Bases, shape : Shapes, layout : {<<0>>, <<0, 30>>}, clock : {WallClock}]
  \cup [base : {"quiet"}, shape : {GoodShape}, layout : Layouts, clock : Clocks]

EventShape(in, e) == IF e = 1 THEN in.shape ELSE GoodShape
PeakPos(in, e) == FirstPeak + in.layout[e]

\* the lags of the recording's events: DipLag and RecLag unless the recording
\* names its own
DipLagOf(in) == IF "dipLag" \in DOMAIN in THEN in.dipLag ELSE DipLag
RecLagOf(in) == IF "recLag" \in DOMAIN in THEN in.recLag ELSE RecLag

AMagAt(in, k) ==
  LET es == DOMAIN in.layout
      pat == BasePattern(in.base)
      dipLag == DipLagOf(in)
      recLag == RecLagOf(in)
  IN  IF \E e \in es : k = PeakPos(in, e)
        THEN EventShape(in, CHOOSE e \in es : k = PeakPos(in, e)).peak
      ELSE IF \E e \in es : k = PeakPos(in, e) + dipLag
        THEN EventShape(in, CHOOSE e \in es : k = PeakPos(in, e) + dipLag).dip
      ELSE IF \E e \in es : k = PeakPos(in, e) + dipLag + recLag
        THEN EventShape(in, CHOOSE e \in es : k = PeakPos(in, e) + dipLag + recLag).rec
      ELSE pat[(k % Len(pat)) + 1]

TRelAt(in, k) == Max(0, k - in.clock.zero) * in.clock.dt
TimeAt(in, k) == in.clock.epoch + TRelAt(in, k)

\* the rotation rate of sample k about the one axis the wrist turns on, in
\* hundredths of a rad/s (gy = gz = 0): it follows the acceleration, one way
\* on the peak and the other way in the dip
GxAt(in, k) == 5 * (AMagAt(in, k) - 39)

\* the k-th sample (0-based) delivered by the sensor
SampleAt(in, k) ==
  [aMag |-> AMagAt(in, k), t |-> TimeAt(in, k), tRel |-> TRelAt(in, k), gx |-> GxAt(in, k)]

\* the array built by mapping f over the indices 1..n
ArrayOf(f, n) == SubSeq(f, 1, n)

\* the complete recording (session.imu)
Imu(in) == ArrayOf([k \in 1..SigLen |-> SampleAt(in, k - 1)], SigLen)

(***************************************************************************)
(* ShotDetector                                                            *)
(***************************************************************************)
PEAK_SIGMA_X2 == 5
DIP_SIGMA_X2 == 3
RECOVERY_SIGMA_X2 == 2
PEAK_TO_DIP_SIGMA_X2 == 10
MIN_PEAK_ABS == 14
MAX_DIP_ABS == 6
MIN_RISE_FROM_DIP == 5
MIN_PEAK_TO_DIP_ABS == 8
BASELINE_WINDOW == 80
BASELINE_OFFSET == 20
DIP_SEARCH_WINDOW == 35
RECOVERY_SEARCH_WINDOW == 30
SCAN_START_OFFSET == 90
SCAN_END_OFFSET == 50
MIN_SHOT_INTERVAL_MS == 1200
MIN_SHOT_SAMPLES == 60
MAX_EFFECTIVE_STD_X2 == 3
\* the three thresholds as src/js/core.js sets them
CoreJs_MAX_DIP_ABS == 8
CoreJs_MIN_RISE_FROM_DIP == 4
CoreJs_MIN_PEAK_TO_DIP_ABS == 6
\* -Infinity, the initial lastShotIdx / lastIdx
NegInfinity == -1000000

\* the threshold constants of the two copies of core.js
TightenedCore == [name |-> "tightened", postFilters |-> TRUE,
                  MAX_DIP_ABS |-> MAX_DIP_ABS,
                  MIN_RISE_FROM_DIP |-> MIN_RISE_FROM_DIP,
                  MIN_PEAK_TO_DIP_ABS |-> MIN_PEAK_TO_DIP_ABS]
CoreJs == [name |-> "js/core.js", postFilters |-> FALSE,
           MAX_DIP_ABS |-> CoreJs_MAX_DIP_ABS,
           MIN_RISE_FROM_DIP |-> CoreJs_MIN_RISE_FROM_DIP,
           MIN_PEAK_TO_DIP_ABS |-> CoreJs_MIN_PEAK_TO_DIP_ABS]

\* aMags[i], 0-based
At(aMags, i) == aMags[i + 1]

\* The reductions and scans of the code run left to right over an index
\* range [j, end); here the range is split in halves, which gives the same
\* sum, extremum and first extremal index without deep recursion.
Mid(j, end) == (j + end) \div 2

\* slice.reduce((a, b) => a + b, 0)
RECURSIVE SumFrom(_, _, _)
SumFrom(aMags, j, end) ==
  IF j >= end THEN 0
  ELSE IF end = j + 1 THEN At(aMags, j)
  ELSE SumFrom(aMags, j, Mid(j, end)) + SumFrom(aMags, Mid(j, end), end)

\* sum of squares, from which the variance reduce is obtained
RECURSIVE SumSqFrom(_, _, _)
SumSqFrom(aMags, j, end) ==
  IF j >= end THEN 0
  ELSE IF end = j + 1 THEN At(aMags, j) * At(aMags, j)
  ELSE SumSqFrom(aMags, j, Mid(j, end)) + SumSqFrom(aMags, Mid(j, end), end)

\* mean and std of aMags.slice(start, end), as [n, sum, dev]
Stats(aMags, start, end) ==
  LET n == Max(0, end - start)
      s == SumFrom(aMags, start, end)
      q == SumSqFrom(aMags, start, end)
  IN  [n |-> n, sum |-> s, dev |-> n * q - s * s]

NoBase == [n |-> 0, sum |-> 0, dev |-> 0]

\* ShotDetector._baseline returns null: "if (slice.length < 10) return null"
BaselineIsNull(aMags, endIdx) ==
  LET start == Max(0, endIdx - BASELINE_WINDOW)
      end   == Min(endIdx, Len(aMags))
  IN  end - start < 10

\* ShotDetector._baseline; NoBase stands for null
Baseline(aMags, endIdx) ==
  LET start == Max(0, endIdx - BASELINE_WINDOW)
      end   == Min(endIdx, Len(aMags))
  IN  IF BaselineIsNull(aMags, endIdx) THEN NoBase ELSE Stats(aMags, start, end)

\* base.std > MAX_EFFECTIVE_STD, i.e. effStd = Math.min(std, cap) is the cap
StdAboveCap(base) ==
  4 * base.dev > (base.n * Ms2(MAX_EFFECTIVE_STD_X2)) * (base.n * Ms2(MAX_EFFECTIVE_STD_X2))

\* x >= base.mean + (k2/2) * base.std
GeMeanPlusStd(x, base, k2) ==
  LET d == base.n * x - base.sum
  IN  d >= 0 /\ 4 * d * d >= k2 * k2 * base.dev

\* x >= base.mean + (k2/2) * MAX_EFFECTIVE_STD
GeMeanPlusCap(x, base, k2) ==
  4 * (base.n * x - base.sum) >= k2 * Ms2(MAX_EFFECTIVE_STD_X2) * base.n

\* x >= base.mean + (k2/2) * effStd
GeMeanPlusEff(x, base, k2) ==
  IF StdAboveCap(base) THEN GeMeanPlusCap(x, base, k2) ELSE GeMeanPlusStd(x, base, k2)

\* x <= base.mean - (k2/2) * base.std
LeMeanMinusStd(x, base, k2) ==
  LET d == base.sum - base.n * x
  IN  d >= 0 /\ 4 * d * d >= k2 * k2 * base.dev

\* r >= effStd * (k2/2)
GeEffTimes(r, base, k2) ==
  IF StdAboveCap(base)
    THEN 4 * r >= k2 * Ms2(MAX_EFFECTIVE_STD_X2)
    ELSE r >= 0 /\ 4 * (base.n * r) * (base.n * r) >= k2 * k2 * base.dev

\* variant of the local-maximum test that takes the later of two equal samples
IsLocalMaxLater(aMags, i) ==
  ~(At(aMags, i) < At(aMags, i - 1) \/ At(aMags, i) <= At(aMags, i + 1))

\* must be local max
IsLocalMax(aMags, i) ==
  ~(At(aMags, i) <= At(aMags, i - 1) \/ At(aMags, i) < At(aMags, i + 1))

\* passes: aMags[i] < peakThreshold || aMags[i] < MIN_PEAK_ABS
PeakGate(aMags, i, base) ==
  At(aMags, i) >= Ms2(MIN_PEAK_ABS) /\ GeMeanPlusEff(At(aMags, i), base, PEAK_SIGMA_X2)

\* first index of the minimum over the non-empty range [j, end)
RECURSIVE FirstMin(_, _, _)
FirstMin(aMags, j, end) ==
  IF end <= j + 1 THEN j
  ELSE LET l == FirstMin(aMags, j, Mid(j, end))
           r == FirstMin(aMags, Mid(j, end), end)
       IN  IF At(aMags, r) < At(aMags, l) THEN r ELSE l

\* first index of the maximum over the non-empty range [j, end)
RECURSIVE FirstMax(_, _, _)
FirstMax(aMags, j, end) ==
  IF end <= j + 1 THEN j
  ELSE LET l == FirstMax(aMags, j, Mid(j, end))
           r == FirstMax(aMags, Mid(j, end), end)
       IN  IF At(aMags, r) > At(aMags, l) THEN r ELSE l

\* the loop "for (j = from; j < end; j++) if (aMags[j] < aMags[best]) best = j"
\* started with best = from
ArgMinFrom(aMags, j, end, best) ==
  IF j >= end THEN best ELSE FirstMin(aMags, j, end)

\* the loop "for (j = from; j < end; j++) if (aMags[j] > aMags[best]) best = j"
\* started with best = from
ArgMaxFrom(aMags, j, end, best) ==
  IF j >= end THEN best ELSE FirstMax(aMags, j, end)

\* variant of the dip search that stops after 10 samples
FindDipShort(aMags, i, len) ==
  ArgMinFrom(aMags, i + 1, Min(len, i + 10), i + 1)

\* "Find dip": index of the minimum in [i+1, min(len, i + DIP_SEARCH_WINDOW))
FindDip(aMags, i, len) ==
  ArgMinFrom(aMags, i + 1, Min(len, i + DIP_SEARCH_WINDOW), i + 1)

\* x <= base.mean - (k2/2) * effStd
LeMeanMinusEff(x, base, k2) ==
  IF StdAboveCap(base)
    THEN 4 * (base.sum - base.n * x) >= k2 * Ms2(MAX_EFFECTIVE_STD_X2) * base.n
    ELSE LeMeanMinusStd(x, base, k2)

\* variant of the dip gate that takes its threshold from the capped std
DipGateClamped(aMags, dipIdx, base, K) ==
  LeMeanMinusEff(At(aMags, dipIdx), base, DIP_SIGMA_X2)
  /\ At(aMags, dipIdx) <= Ms2(K.MAX_DIP_ABS)

\* passes: aMags[dipIdx] > dipThreshold || aMags[dipIdx] > MAX_DIP_ABS
DipGate(aMags, dipIdx, base, K) ==
  LeMeanMinusStd(At(aMags, dipIdx), base, DIP_SIGMA_X2)
  /\ At(aMags, dipIdx) <= Ms2(K.MAX_DIP_ABS)

\* passes: peakToDipRange < Math.max(MIN_PEAK_TO_DIP_ABS, effStd * PEAK_TO_DIP_SIGMA)
RangeGate(aMags, i, dipIdx, base, K) ==
  LET peakToDipRange == At(aMags, i) - At(aMags, dipIdx)
  IN  peakToDipRange >= Ms2(K.MIN_PEAK_TO_DIP_ABS)
      /\ GeEffTimes(peakToDipRange, base, PEAK_TO_DIP_SIGMA_X2)

\* "Find recovery": index of the maximum in [dipIdx+1, min(len, dipIdx + RECOVERY_SEARCH_WINDOW))
FindRec(aMags, dipIdx, len) ==
  ArgMaxFrom(aMags, dipIdx + 1, Min(len, dipIdx + RECOVERY_SEARCH_WINDOW), dipIdx + 1)

\* passes: aMags[recIdx] < recThreshold || riseFromDip < MIN_RISE_FROM_DIP
RecGate(aMags, dipIdx, recIdx, base, K) ==
  GeMeanPlusEff(At(aMags, recIdx), base, RECOVERY_SIGMA_X2)
  /\ At(aMags, recIdx) - At(aMags, dipIdx) >= Ms2(K.MIN_RISE_FROM_DIP)

\* imuData[i].t || imuData[i].tRel || 0
SampleTime(sample) ==
  IF sample.t # 0 THEN sample.t ELSE IF sample.tRel # 0 THEN sample.tRel ELSE 0


(***************************************************************************)
(* ShotDetectorConsensus.  A method's result is [vote, conf, threw]: conf  *)
(* is the class of the returned confidence ("NaN", "neg" < 0, "zero",      *)
(* "mid" strictly between 0 and 1, "one"), threw marks a TypeError raised  *)
(* while building the result.  An option is << >> when the caller left it   *)
(* out (undefined) and <<v>> when the caller configured the value v.       *)
(***************************************************************************)
NoOpts == [minVotes |-> << >>,
           windowSigma    |-> [windowSize |-> << >>, sigma |-> << >>],
           envelopeRatio  |-> [shortWindow |-> << >>, longWindow |-> << >>, sigma |-> << >>],
           dipDepth       |-> [maxDip |-> << >>],
           peakProminence |-> [neighborhood |-> << >>, minProminence |-> << >>]]

\* opts.x || dflt: undefined and 0 are both falsy
OrDefault(x, dflt) == IF x = << >> THEN dflt ELSE IF x[1] = 0 THEN dflt ELSE x[1]

\* aMags[i] is undefined outside the array
Defined(aMags, i) == i >= 0 /\ i < Len(aMags)

MethodResult(vote, conf) == [vote |-> vote, conf |-> conf, threw |-> FALSE]
Thrown == [vote |-> FALSE, conf |-> "NaN", threw |-> TRUE]

\* Array.prototype.slice's reading of a bound: negative counts from the end
SliceBound(aMags, x) == IF x < 0 THEN Max(Len(aMags) + x, 0) ELSE Min(x, Len(aMags))

\* aMags.slice(start, end) as the index range [lo, hi) it covers
SliceLo(aMags, start) == SliceBound(aMags, start)
SliceHi(aMags, start, end) == Max(SliceLo(aMags, start), SliceBound(aMags, end))

\* z > k and z >= k for z = (d/n) / (std || 1), std = sqrt(dev)/n, k >= 0
ZGt(d, dev, n, k) == IF dev > 0 THEN d > 0 /\ d * d > k * k * dev ELSE d > Ms2(k) * n
ZGe(d, dev, n, k) == IF dev > 0 THEN d >= 0 /\ d * d >= k * k * dev ELSE d >= Ms2(k) * n

\* class of Math.min(1, z / c) for c > 0
ConfOfZ(d, dev, n, c) ==
  IF ZGe(d, dev, n, c) THEN "one"
  ELSE IF d = 0 THEN "zero" ELSE IF d < 0 THEN "neg" ELSE "mid"

\* Method 1
windowSigma(aMags, peakIdx, opts) ==
  LET windowSize == OrDefault(opts.windowSize, 200)
      sigma == OrDefault(opts.sigma, 4)
      halfW == windowSize \div 2
      start == Max(0, peakIdx - halfW)
      end   == Min(Len(aMags), peakIdx + halfW)
      lo    == SliceLo(aMags, start)
      hi    == SliceHi(aMags, start, end)
      st    == Stats(aMags, lo, hi)
      d     == st.n * At(aMags, peakIdx) - st.sum
  IN  IF hi - lo < 40 THEN MethodResult(FALSE, "zero")
      ELSE IF ~Defined(aMags, peakIdx) THEN MethodResult(FALSE, "NaN")
      ELSE MethodResult(ZGt(d, st.dev, st.n, sigma), ConfOfZ(d, st.dev, st.n, sigma + 2))

\* Math.max(...slice) and Math.min(...slice) over the non-empty range [j, end)
MaxFrom(aMags, j, end) == At(aMags, FirstMax(aMags, j, end))
MinFrom(aMags, j, end) == At(aMags, FirstMin(aMags, j, end))

\* Method 2
envelopeRatio(aMags, peakIdx, opts) ==
  LET shortW == OrDefault(opts.shortWindow, 50)
      longW  == OrDefault(opts.longWindow, 200)
      sigma  == OrDefault(opts.sigma, 4)
      sStart == Max(0, peakIdx - (shortW \div 2))
      sEnd   == Min(Len(aMags), sStart + shortW)
      sLo    == SliceLo(aMags, sStart)
      sHi    == SliceHi(aMags, sStart, sEnd)
      lEnd   == Max(0, peakIdx - (shortW \div 2))
      lStart == Max(0, lEnd - longW)
      lLo    == SliceLo(aMags, lStart)
      lHi    == SliceHi(aMags, lStart, lEnd)
      shortRange == MaxFrom(aMags, sLo, sHi) - MinFrom(aMags, sLo, sHi)
      long   == Stats(aMags, lLo, lHi)
      \* ratio = longStd > 0 ? shortRange / longStd : shortRange, as z of d = n * shortRange
      d      == long.n * shortRange
  IN  IF sHi - sLo < 10 THEN MethodResult(FALSE, "zero")
      ELSE IF lHi - lLo < 20 THEN MethodResult(FALSE, "zero")
      ELSE MethodResult(ZGt(d, long.dev, long.n, sigma), ConfOfZ(d, long.dev, long.n, sigma + 3))

\* Method 3
dipDepth(aMags, peakIdx, dipIdx, opts) ==
  LET maxDipForShot == OrDefault(opts.maxDip, 5)
      dipVal == At(aMags, dipIdx)
      pass   == dipVal < Ms2(maxDipForShot)
  IN  IF ~Defined(aMags, dipIdx) THEN Thrown    \* dipVal.toFixed of undefined
      ELSE MethodResult(pass,
             IF ~pass THEN "zero"
             ELSE IF dipVal <= 0 THEN "one" ELSE "mid")

\* the walks "for (j ...) if (aMags[j] < m) m = aMags[j]" over [lo, hi)
WalkMin(aMags, j, end, m) ==
  IF j >= end THEN m ELSE Min(m, MinFrom(aMags, j, end))

\* Method 4
peakProminence(aMags, peakIdx, opts) ==
  LET neighborhoodSize == OrDefault(opts.neighborhood, 100)
      minProminence == OrDefault(opts.minProminence, 5)
      start   == Max(0, peakIdx - neighborhoodSize)
      end     == Min(Len(aMags), peakIdx + neighborhoodSize)
      leftMin  == WalkMin(aMags, start, peakIdx, At(aMags, peakIdx))
      rightMin == WalkMin(aMags, peakIdx + 1, end, At(aMags, peakIdx))
      prominence == At(aMags, peakIdx) - Max(leftMin, rightMin)
  IN  IF ~Defined(aMags, peakIdx) THEN MethodResult(FALSE, "NaN")
      ELSE MethodResult(prominence > Ms2(minProminence),
             IF prominence >= 2 * Ms2(minProminence) THEN "one"
             ELSE IF prominence = 0 THEN "zero" ELSE "mid")

\* number of methods voting true
CountVotes(methods) == Cardinality({m \in DOMAIN methods : methods[m].vote})

\* the quorum "opts.minVotes || 3"
MinVotes(opts) == OrDefault(opts.minVotes, 3)

\* the aggregation of evaluate: votes, total, minVotes and the result object
Aggregate(methods, opts) ==
  LET votes == CountVotes(methods)
  IN  [isShot  |-> votes >= MinVotes(opts),
       votes   |-> votes,
       total   |-> Len(methods),
       threw   |-> \E m \in DOMAIN methods : methods[m].threw,
       methods |-> methods]

\* ShotDetectorConsensus.evaluate
evaluate(aMags, peakIdx, dipIdx, recIdx, opts) ==
  Aggregate(<< windowSigma(aMags, peakIdx, opts.windowSigma),
               envelopeRatio(aMags, peakIdx, opts.envelopeRatio),
               dipDepth(aMags, peakIdx, dipIdx, opts.dipDepth),
               peakProminence(aMags, peakIdx, opts.peakProminence) >>, opts)


(***************************************************************************)
(* MotionCalibrator.classify.  A feature vector is a function from the     *)
(* feature names it carries to exact fractions [num, den] (a missing name  *)
(* is undefined); magnitudes are in quarters of a m/s^2, dipRatio in       *)
(* hundredths, durations in samples and gyro magnitudes in hundredths of a *)
(* rad/s, and the means and stds of a profile are integers in the same     *)
(* units.  A profile is [null, count, stats]; a calibration set            *)
(* is [null, hasProfiles, profiles]: null for null, hasProfiles = FALSE    *)
(* for an object without a profiles property ({}).  Distances and          *)
(* confidences are exact fractions [num, den], Infinity is den = 0 with    *)
(* num = 1 and NaN is den = 0 with num = 0.                                *)
(***************************************************************************)
FeatureKeys ==
  { "peakMag", "dipMag", "recoveryMag", "range", "dipRatio",
    "peakToDipSamples", "dipToRecSamples", "totalDuration",
    "gyroMagAtPeak", "gyroMagAtDip", "maxGyroInWindow", "gyroDipToRec" }

\* the weights of stage 2, doubled
Weights_X2 ==
  [ peakMag |-> 2, dipMag |-> 6, dipRatio |-> 6, recoveryMag |-> 2, range |-> 4,
    peakToDipSamples |-> 1, dipToRecSamples |-> 1, totalDuration |-> 1,
    gyroMagAtPeak |-> 2, gyroMagAtDip |-> 2, maxGyroInWindow |-> 3, gyroDipToRec |-> 5 ]

NoiseLabels == <<"walking", "running", "dribbling">>

NullProfile == [null |-> TRUE, count |-> 0, stats |-> << >>]

\* this.calibration = null
NullCalibration ==
  [null |-> TRUE, hasProfiles |-> FALSE, profiles |-> [l \in {} |-> NullProfile]]

RECURSIVE Gcd(_, _)
Gcd(a, b) == IF b = 0 THEN a ELSE Gcd(b, a % b)

\* the fraction n / d (d > 0) in lowest terms
Rat(n, d) ==
  LET g == Gcd(IF n < 0 THEN -n ELSE n, d) IN [num |-> n \div g, den |-> d \div g]
Infinity == [num |-> 1, den |-> 0]
NaN == [num |-> 0, den |-> 0]

\* Math.min(1, q) for a fraction, Infinity or NaN q
MinOne(q) == IF q.den = 0 THEN (IF q.num > 0 THEN Rat(1, 1) ELSE q)
             ELSE IF q.num >= q.den THEN Rat(1, 1) ELSE q

\* a <= b and a > b + m2 / 2 on fractions and Infinity; false if either is NaN
RatLe(a, b) ==
  /\ a # NaN /\ b # NaN
  /\ IF b = Infinity THEN TRUE ELSE IF a = Infinity THEN FALSE
     ELSE a.num * b.den <= b.num * a.den
RatGtPlus(a, b, m2) ==
  /\ a # NaN /\ b # NaN
  /\ IF b = Infinity THEN FALSE ELSE IF a = Infinity THEN TRUE
     ELSE 2 * a.num * b.den > 2 * b.num * a.den + m2 * a.den * b.den

\* (a - b + m2 / 2) / 3, NaN for Infinity - Infinity
RatDiffThird(a, b, m2) ==
  IF a = NaN \/ b = NaN \/ (a = Infinity /\ b = Infinity) THEN NaN
  ELSE IF a = Infinity THEN Infinity
  ELSE IF b = Infinity THEN [num |-> -1, den |-> 0]
  ELSE Rat(2 * a.num * b.den - 2 * b.num * a.den + m2 * a.den * b.den,
           6 * a.den * b.den)

\* distTo of classify: the weighted mean of |x - mean| / std over the
\* features whose std is not 0
distTo(features, profile) ==
  LET keys == {k \in FeatureKeys : k \in DOMAIN profile.stats /\ profile.stats[k].std # 0}
      \* |x - mean| / std of feature k as the fraction ZNum[k] / ZDen[k]
      ZDen == [k \in keys |-> profile.stats[k].std * features[k].den]
      RECURSIVE Lcm(_)
      Lcm(S) == IF S = {} THEN 1
                ELSE LET k == CHOOSE x \in S : TRUE
                         rest == Lcm(S \ {k})
                     IN  (rest \div Gcd(rest, ZDen[k])) * ZDen[k]
      RECURSIVE Sum(_, _)
      Sum(S, term) == IF S = {} THEN 0
                      ELSE LET k == CHOOSE x \in S : TRUE IN term[k] + Sum(S \ {k}, term)
      L == Lcm(keys)
      Abs(x) == IF x < 0 THEN -x ELSE x
      Z == [k \in keys |->
              Weights_X2[k] * Abs(features[k].num - profile.stats[k].mean * features[k].den)
                * (L \div ZDen[k])]
      W == [k \in keys |-> Weights_X2[k] * L]
  IN  IF profile.null THEN Infinity
      ELSE IF keys = {} THEN Infinity
      ELSE IF \E k \in keys : k \notin DOMAIN features THEN NaN
      ELSE Rat(Sum(keys, Z), Sum(keys, W))

\* variant of the shot-range test that uses three std instead of two
ExceedsShotRangeThreeStd(x, stat) == x.num > (stat.mean + 3 * stat.std) * x.den

\* features.dipRatio > shootProf.dipRatio.mean + 2 * shootProf.dipRatio.std
ExceedsShotRange(x, stat) == x.num > (stat.mean + 2 * stat.std) * x.den

\* features.dipRatio within one std of the profile's dipRatio mean
InNoiseRange(x, stat) ==
  /\ x.num >= (stat.mean - stat.std) * x.den
  /\ x.num <= (stat.mean + stat.std) * x.den

\* the object classify returns; reason is kept as its wording and the
\* activity it names
ClassifyResult(isShot, confidence, kind, label) ==
  [isShot |-> isShot, confidence |-> confidence, reason |-> [kind |-> kind, label |-> label]]

\* variant of the pass-through result that rejects the candidate
FailClosed(kind) == ClassifyResult(FALSE, Rat(0, 1), kind, "")

\* { isShot: true, confidence: 0, reason } returned without a usable calibration
FailOpen(kind) == ClassifyResult(TRUE, Rat(0, 1), kind, "")

\* variant of the margin comparison without the margin
FartherThanNoiseNoMargin(shootDist, minNoiseDist) == RatGtPlus(shootDist, minNoiseDist, 0)

\* shootDist > minNoiseDist + margin, margin = 0.5
FartherThanNoise(shootDist, minNoiseDist) == RatGtPlus(shootDist, minNoiseDist, 1)

\* MotionCalibrator.classify
classify(features, cal) ==
  LET profiles == cal.profiles
      shootProf == profiles["shooting"]
      \* stage 1: the noise profiles that make the candidate a hard reject
      rejecting ==
        {i \in DOMAIN NoiseLabels :
           LET prof == profiles[NoiseLabels[i]]
           IN  /\ ~prof.null
               /\ "dipRatio" \in DOMAIN prof.stats
               /\ "dipRatio" \in DOMAIN features
               /\ ExceedsShotRange(features["dipRatio"], shootProf.stats["dipRatio"])
               /\ InNoiseRange(features["dipRatio"], prof.stats["dipRatio"])}
      \* stage 2, on the distances to the four profiles
      Stage2(shootDist, walkDist, runDist, dribbleDist) ==
        LET minNoiseDist ==
              IF NaN \in {walkDist, runDist, dribbleDist} THEN NaN
              ELSE IF RatLe(walkDist, runDist) /\ RatLe(walkDist, dribbleDist) THEN walkDist
              ELSE IF RatLe(runDist, dribbleDist) THEN runDist ELSE dribbleDist
            closestNoise ==
              IF RatLe(walkDist, runDist) /\ RatLe(walkDist, dribbleDist) THEN "walking"
              ELSE IF RatLe(runDist, dribbleDist) THEN "running" ELSE "dribbling"
        IN  IF FartherThanNoise(shootDist, minNoiseDist)
              THEN ClassifyResult(FALSE, MinOne(RatDiffThird(shootDist, minNoiseDist, 0)),
                                  "closer to", closestNoise)
              ELSE ClassifyResult(TRUE, MinOne(RatDiffThird(minNoiseDist, shootDist, 1)),
                                  "shot dist", "")
  IN  IF cal.null \/ ~cal.hasProfiles
        THEN ClassifyResult(TRUE, Rat(0, 1), "no cal", "")
      ELSE IF shootProf.null
        THEN FailOpen("no shooting profile")
      ELSE IF /\ "dipRatio" \in DOMAIN shootProf.stats
              /\ shootProf.stats["dipRatio"].std > 0
              /\ rejecting # {}
        THEN ClassifyResult(FALSE, Rat(9, 10), "matches", NoiseLabels[Least(rejecting)])
      ELSE Stage2(distTo(features, shootProf), distTo(features, profiles["walking"]),
                  distTo(features, profiles["running"]),
                  distTo(features, profiles["dribbling"]))

(***************************************************************************)
(* MotionCalibrator._extractFeatures and MotionCalibrator.extractPatterns. *)
(* A pattern is its feature vector with label and idx added.               *)
(***************************************************************************)
\* null, returned for indices outside the recording
NullFeatures == [null |-> TRUE]

\* gyroMag(s) = sqrt(gx^2 + gy^2 + gz^2) with gy = gz = 0
gyroMag(s) == IF s.gx < 0 THEN -s.gx ELSE s.gx

\* MotionCalibrator._extractFeatures; baselineMean is base.sum / base.n
extractFeatures(imuData, peakIdx, dipIdx, recIdx, base) ==
  LET len == Len(imuData)
      peakMag == imuData[peakIdx + 1].aMag
      dipMag == imuData[dipIdx + 1].aMag
      recoveryMag == imuData[recIdx + 1].aMag
      winStart == Max(0, peakIdx - 5)
      winEnd == Min(len - 1, recIdx + 5)
      inWindow == {gyroMag(imuData[j + 1]) : j \in winStart..winEnd}
      RECURSIVE GyroSum(_)
      GyroSum(j) == IF j > recIdx THEN 0 ELSE gyroMag(imuData[j + 1]) + GyroSum(j + 1)
      gyroCount == Max(0, recIdx - dipIdx + 1)
  IN  IF peakIdx < 0 \/ dipIdx >= len \/ recIdx >= len THEN NullFeatures
      ELSE [ peakMag |-> Rat(peakMag, 1),
             dipMag |-> Rat(dipMag, 1),
             recoveryMag |-> Rat(recoveryMag, 1),
             range |-> Rat(peakMag - dipMag, 1),
             dipRatio |-> IF base.n > 0 /\ base.sum > 0
                            THEN Rat(100 * dipMag * base.n, base.sum) ELSE Rat(100, 1),
             peakToDipSamples |-> Rat(dipIdx - peakIdx, 1),
             dipToRecSamples |-> Rat(recIdx - dipIdx, 1),
             totalDuration |-> Rat(recIdx - peakIdx, 1),
             gyroMagAtPeak |-> Rat(gyroMag(imuData[peakIdx + 1]), 1),
             gyroMagAtDip |-> Rat(gyroMag(imuData[dipIdx + 1]), 1),
             maxGyroInWindow |->
               Rat(CHOOSE g \in inWindow \cup {0} : \A h \in inWindow : g >= h, 1),
             gyroDipToRec |-> IF gyroCount > 0 THEN Rat(GyroSum(dipIdx), gyroCount)
                              ELSE Rat(0, 1) ]

\* the relaxed thresholds of extractPatterns
PatternMinPeak == 11
PatternMinDrop == 3
PatternMinRise == 2
PatternMinSpacing == 20
PatternSigma_X2 == 2
PatternMinLen == 60

\* variant of the spacing test with half the spacing
PatternTooCloseHalf(i, lastPeakIdx) == i - lastPeakIdx < 10

\* i - lastPeakIdx < minSpacing: the candidate is skipped
PatternTooClose(i, lastPeakIdx) == i - lastPeakIdx < PatternMinSpacing

\* one iteration of extractPatterns' loop at index i: [accept, pattern]
PatternCandidate(imuData, aMags, global, i, lastPeakIdx, label) ==
  LET len == Len(aMags)
      baseEnd == Max(0, i - BASELINE_OFFSET)
      baseStart == Max(0, baseEnd - BASELINE_WINDOW)
      base == Stats(aMags, baseStart, baseEnd)
      dipEnd == Min(len, i + DIP_SEARCH_WINDOW)
      dipIdx == FindDip(aMags, i, len)
      recEnd == Min(len, dipIdx + RECOVERY_SEARCH_WINDOW)
      recIdx == FindRec(aMags, dipIdx, len)
      features == extractFeatures(imuData, i, dipIdx, recIdx, base)
      accept ==
        /\ ~(At(aMags, i) <= At(aMags, i - 1) \/ At(aMags, i) < At(aMags, i + 1))
        \* aMags[i] >= Math.max(globalMean + 1.0 * globalStd, 11.0)
        /\ At(aMags, i) >= Ms2(PatternMinPeak)
        /\ GeMeanPlusStd(At(aMags, i), global, PatternSigma_X2)
        /\ ~PatternTooClose(i, lastPeakIdx)
        /\ ~(baseEnd - baseStart < 10)
        /\ ~(i + 1 >= dipEnd)
        /\ ~(At(aMags, i) - At(aMags, dipIdx) < Ms2(PatternMinDrop))
        /\ ~(dipIdx + 1 >= recEnd)
        /\ ~(At(aMags, recIdx) - At(aMags, dipIdx) < Ms2(PatternMinRise))
        /\ features # NullFeatures
  IN  IF accept
        THEN [accept |-> TRUE, pattern |-> features @@ [label |-> label, idx |-> i]]
        ELSE [accept |-> FALSE, pattern |-> NullFeatures]

\* the loop "for (i = 2; i < aMags.length - DIP - REC; i++)" of
\* extractPatterns, carried from one pushed pattern to the next
RECURSIVE PatternLoop(_, _, _, _, _, _, _)
PatternLoop(imuData, aMags, global, from, lastPeakIdx, label, patterns) ==
  LET end == Len(aMags) - DIP_SEARCH_WINDOW - RECOVERY_SEARCH_WINDOW
      accepted == {i \in from..(end - 1) :
                     PatternCandidate(imuData, aMags, global, i, lastPeakIdx, label).accept}
  IN  IF accepted = {} THEN patterns
      ELSE LET i == Least(accepted)
               c == PatternCandidate(imuData, aMags, global, i, lastPeakIdx, label)
           IN  PatternLoop(imuData, aMags, global, i + 1, i, label,
                           Append(patterns, c.pattern))

\* MotionCalibrator.extractPatterns
extractPatterns(imuData, label) ==
  LET len == Len(imuData)
      aMags == ArrayOf([k \in 1..len |-> imuData[k].aMag], len)
      global == Stats(aMags, 0, len)
  IN  IF len < PatternMinLen THEN << >>
      ELSE PatternLoop(imuData, aMags, global, 2, NegInfinity, label, << >>)

(***************************************************************************)
(* MotionCalibrator.computeProfile, in the arithmetic of the code: a       *)
(* number is an IEEE-754 double, [m, e] with m its 53 significand bits     *)
(* (most significant first, m[1] = 1) and e the exponent of m[1]; zero is  *)
(* DZero.  The feature values are positive and far from the overflow and   *)
(* underflow limits, so only rounding (to nearest, ties to even) is        *)
(* modelled.                                                               *)
(***************************************************************************)
SignificandBits == 53
DZero == [m |-> << >>, e |-> 0]
Zeros(n) == ArrayOf([i \in 1..n |-> 0], n)

\* x + y + c for two bit strings of the same length: one bit longer.  The
\* carry into position i is decided by the nearest position right of it
\* whose two bits are equal (both 1: carry), or by c if there is none.
AddBits(x, y, c) ==
  LET n == Len(x)
      carry(i) ==
        LET decided == {j \in (i + 1)..n : x[j] + y[j] # 1}
        IN  IF decided = {} THEN c ELSE (x[Least(decided)] + y[Least(decided)]) \div 2
  IN  ArrayOf([i \in 1..(n + 1) |->
                 IF i = 1 THEN carry(0) ELSE (x[i - 1] + y[i - 1] + carry(i - 1)) % 2],
              n + 1)

\* 2^k mod n
RECURSIVE Pow2Mod(_, _)
Pow2Mod(k, n) ==
  IF k = 0 THEN 1 % n
  ELSE IF k % 2 = 0 THEN (Pow2Mod(k \div 2, n) * Pow2Mod(k \div 2, n)) % n
  ELSE (2 * Pow2Mod(k - 1, n)) % n

\* the number with the bits bits[lo..hi], mod n
RECURSIVE BitsMod(_, _, _, _)
BitsMod(bits, lo, hi, n) ==
  IF lo > hi THEN 0
  ELSE IF lo = hi THEN bits[lo] % n
  ELSE LET mid == (lo + hi) \div 2
       IN  (BitsMod(bits, lo, mid, n) * Pow2Mod(hi - mid, n)
              + BitsMod(bits, mid + 1, hi, n)) % n

\* the double nearest to the number with bits `bits` (bits[1] = 1 of weight
\* 2^e) followed by something non-zero iff sticky; ties go to the even one
RoundBits(bits, e, sticky) ==
  LET padded == IF Len(bits) <= SignificandBits
                  THEN bits \o Zeros(SignificandBits + 1 - Len(bits)) ELSE bits
      m == SubSeq(padded, 1, SignificandBits)
      half == padded[SignificandBits + 1] = 1
      rest == sticky \/ \E i \in (SignificandBits + 2)..Len(padded) : padded[i] = 1
      up == half /\ (rest \/ m[SignificandBits] = 1)
      inc == AddBits(m, Zeros(SignificandBits), 1)
  IN  IF ~up THEN [m |-> m, e |-> e]
      ELSE IF inc[1] = 1 THEN [m |-> SubSeq(inc, 1, SignificandBits), e |-> e + 1]
      ELSE [m |-> Tail(inc), e |-> e]

\* the double a numeric literal num / den > 0 denotes: bit k of the binary
\* expansion of r0 / d in [1, 2) is floor(r0 * 2^k / d) mod 2
DoubleOf(num, den) ==
  LET e == CHOOSE k \in -16..16 :
             IF k >= 0 THEN den * 2^k <= num /\ num < den * 2^(k + 1)
             ELSE den <= num * 2^(-k) /\ num * 2^(-k) < 2 * den
      r0 == IF e >= 0 THEN num ELSE num * 2^(-e)
      d == IF e >= 0 THEN den * 2^e ELSE den
      last == SignificandBits + 1
      bits == ArrayOf([i \in 1..(last + 1) |->
                         IF (r0 * Pow2Mod(i - 1, 2 * d)) % (2 * d) >= d THEN 1 ELSE 0],
                      last + 1)
  IN  RoundBits(bits, e, (r0 * Pow2Mod(last, d)) % d # 0)

\* a + b on doubles
DAdd(a, b) ==
  IF a = DZero THEN b
  ELSE IF b = DZero THEN a
  ELSE LET hi == IF a.e >= b.e THEN a ELSE b
           lo == IF a.e >= b.e THEN b ELSE a
           d == hi.e - lo.e
           t == AddBits(hi.m \o Zeros(d), Zeros(d) \o lo.m, 0)
       IN  IF t[1] = 1 THEN RoundBits(t, hi.e + 1, FALSE)
           ELSE RoundBits(Tail(t), hi.e, FALSE)

\* a / n on doubles, n a positive whole number below 16 (vals.length), by
\* long division: quotient bit i is 1 iff twice the remainder of the bits
\* before it, plus bit i, reaches n.  The quotient starts with at most four
\* zeros, so five more bits than the significand leave the rounding bit, and
\* the last remainder tells whether anything follows it.
DDivInt(a, n) ==
  IF a = DZero THEN DZero
  ELSE LET ext == a.m \o Zeros(5)
           q == ArrayOf([i \in 1..Len(ext) |->
                           IF 2 * BitsMod(ext, 1, i - 1, n) + ext[i] >= n THEN 1 ELSE 0],
                        Len(ext))
           lead == CHOOSE i \in 1..Len(q) : q[i] = 1 /\ \A j \in 1..(i - 1) : q[j] = 0
       IN  RoundBits(SubSeq(q, lead, Len(q)), a.e - (lead - 1),
                     BitsMod(ext, 1, Len(ext), n) # 0)

\* a < b on doubles that are positive or zero
DLess(a, b) ==
  IF a = DZero THEN b # DZero
  ELSE IF b = DZero THEN FALSE
  ELSE IF a.e # b.e THEN a.e < b.e
  ELSE \E i \in 1..SignificandBits :
         a.m[i] < b.m[i] /\ \A j \in 1..(i - 1) : a.m[j] = b.m[j]

\* the argument of computeProfile: a list of patterns, or nothing (null,
\* undefined)
NoPatterns == [missing |-> TRUE, list |-> << >>]
PatternList(list) == [missing |-> FALSE, list |-> list]

\* the stats of one feature.  std = sqrt(sum of (v - mean) ** 2 / length) is
\* kept as whether it is 0: the differences of the values here are 0 or far
\* above the square root of the smallest double, so the sum is 0 exactly when
\* every value equals the mean
FeatureStats(vals) ==
  LET RECURSIVE Sum(_)
      Sum(k) == IF k = 0 THEN DZero ELSE DAdd(Sum(k - 1), vals[k])
      mean == DDivInt(Sum(Len(vals)), Len(vals))
  IN  IF vals = << >>
        THEN [mean |-> DZero, stdIsZero |-> TRUE, min |-> DZero, max |-> DZero]
        ELSE [mean |-> mean,
              stdIsZero |-> \A k \in DOMAIN vals : vals[k] = mean,
              min |-> vals[CHOOSE k \in DOMAIN vals :
                             \A j \in DOMAIN vals : ~DLess(vals[j], vals[k])],
              max |-> vals[CHOOSE k \in DOMAIN vals :
                             \A j \in DOMAIN vals : ~DLess(vals[k], vals[j])]]

\* MotionCalibrator.computeProfile: [null, count, stats]
computeProfile(patterns) ==
  IF patterns.missing \/ patterns.list = << >> THEN NullProfile
  ELSE [null |-> FALSE, count |-> Len(patterns.list),
        stats |-> [key \in FeatureKeys |->
                     LET has == SelectSeq(patterns.list, LAMBDA p : key \in DOMAIN p)
                     IN  FeatureStats(ArrayOf([k \in DOMAIN has |-> has[k][key]],
                                              Len(has)))]]

(***************************************************************************)
(* ShotDetector.detectAll and ShotDetector.processSample                   *)
(***************************************************************************)
NullConsensus == [isShot |-> FALSE, votes |-> 0, total |-> 0, threw |-> FALSE,
                  methods |-> << >>]

\* stands for "no shot" (null)
NullShot == [idx |-> -1]

\* variant of the sample gate that lets a peak 59 samples later through
TooCloseOffByOne(idx, lastIdx) == idx - lastIdx < MIN_SHOT_SAMPLES - 1

\* "Enforce min samples between shots": the candidate is skipped
TooClose(idx, lastIdx) == idx - lastIdx < MIN_SHOT_SAMPLES

\* variant of the time gate that asks for twice the interval
TooSoonTwice(time, lastTime) == time - lastTime < 2 * MIN_SHOT_INTERVAL_MS /\ lastTime > 0

\* "Enforce min time between shots": the candidate is skipped
TooSoon(time, lastTime) == time - lastTime < MIN_SHOT_INTERVAL_MS /\ lastTime > 0

\* the post-filter "if (this.useConsensus) { consensus = evaluate(...) }"
ConsensusOf(det, aMags, i, dipIdx, recIdx) ==
  IF det.core.postFilters /\ det.useConsensus
    THEN evaluate(aMags, i, dipIdx, recIdx, det.consensusOpts)
    ELSE NullConsensus

\* variant of the consensus filter that lets every candidate through
ConsensusRejectsNone(det, consensus) == FALSE

\* if (!consensus.isShot) continue
ConsensusRejects(det, consensus) ==
  det.core.postFilters /\ det.useConsensus /\ ~consensus.isShot

\* let calibResult = null
NullCalibResult == [null |-> TRUE]

\* the post-filter "if (this.calibration) { features = _extractFeatures(...);
\* if (features) calibResult = classify(features, this.calibration) }"
CalibResultOf(det, imuData, i, dipIdx, recIdx, base) ==
  IF det.core.postFilters /\ ~det.calibration.null
    THEN LET features == extractFeatures(imuData, i, dipIdx, recIdx, base)
         IN  IF features # NullFeatures THEN classify(features, det.calibration)
             ELSE NullCalibResult
    ELSE NullCalibResult

\* variant of the calibration filter that drops every candidate it classifies
CalibrationRejectsAll(calibResult) == calibResult # NullCalibResult

\* if (!calibResult.isShot) continue
CalibrationRejects(calibResult) ==
  calibResult # NullCalibResult /\ ~calibResult.isShot

\* one iteration of detectAll's loop at index i: [accept, shot, time]
BatchCandidate(imuData, aMags, det, i, lastIdx, lastTime) ==
  LET len == Len(aMags)
      base == Baseline(aMags, Max(0, i - BASELINE_OFFSET))
      sampleTime == SampleTime(imuData[i + 1])
      dipIdx == FindDip(aMags, i, len)
      recEnd == Min(len, dipIdx + RECOVERY_SEARCH_WINDOW)
      recIdx == FindRec(aMags, dipIdx, len)
      consensus == ConsensusOf(det, aMags, i, dipIdx, recIdx)
      calibResult == CalibResultOf(det, imuData, i, dipIdx, recIdx, base)
      accept ==
        /\ IsLocalMax(aMags, i)
        /\ ~BaselineIsNull(aMags, Max(0, i - BASELINE_OFFSET))
        /\ PeakGate(aMags, i, base)
        /\ ~TooClose(i, lastIdx)
        /\ ~TooSoon(sampleTime, lastTime)
        /\ DipGate(aMags, dipIdx, base, det.core)
        /\ RangeGate(aMags, i, dipIdx, base, det.core)
        /\ ~(dipIdx + 1 >= recEnd)
        /\ RecGate(aMags, dipIdx, recIdx, base, det.core)
        /\ ~ConsensusRejects(det, consensus)
        /\ ~CalibrationRejects(calibResult)
  IN  IF accept
        THEN [accept |-> TRUE, time |-> sampleTime,
              shot |-> [idx |-> i, mag |-> At(aMags, i),
                        dipMag |-> At(aMags, dipIdx), recoveryMag |-> At(aMags, recIdx),
                        range |-> At(aMags, i) - At(aMags, dipIdx),
                        t |-> imuData[i + 1].t, tRel |-> imuData[i + 1].tRel,
                        consensus |-> consensus, calibResult |-> calibResult]]
        ELSE [accept |-> FALSE, time |-> lastTime, shot |-> NullShot]

\* the loop "for (i = from; i < aMags.length - DIP - REC; i++)" of detectAll,
\* carried from one accepted index to the next: lastIdx, lastTime and shots
\* change only when an index is accepted
RECURSIVE DetectLoop(_, _, _, _, _, _, _)
DetectLoop(imuData, aMags, det, from, lastIdx, lastTime, shots) ==
  LET end == Len(aMags) - DIP_SEARCH_WINDOW - RECOVERY_SEARCH_WINDOW
      accepted == {i \in from..(end - 1) :
                     BatchCandidate(imuData, aMags, det, i, lastIdx, lastTime).accept}
  IN  IF accepted = {} THEN shots
      ELSE LET i == Least(accepted)
               c == BatchCandidate(imuData, aMags, det, i, lastIdx, lastTime)
           IN  DetectLoop(imuData, aMags, det, i + 1, i, c.time, Append(shots, c.shot))

\* variant of detectAll that starts from the detector's streaming fields
detectAllSeeded(imuData, det) ==
  LET aMags == ArrayOf([k \in 1..Len(imuData) |-> imuData[k].aMag], Len(imuData))
  IN  DetectLoop(imuData, aMags, det, BASELINE_WINDOW + BASELINE_OFFSET,
                 det.lastShotIdx, det.lastShotTime, << >>)

\* ShotDetector.detectAll: lastIdx and lastTime are locals of the call
detectAll(imuData, det) ==
  LET aMags == ArrayOf([k \in 1..Len(imuData) |-> imuData[k].aMag], Len(imuData))
  IN  DetectLoop(imuData, aMags, det, BASELINE_WINDOW + BASELINE_OFFSET,
                 NegInfinity, 0, << >>)

\* ShotDetector._checkCandidate: [found, shot]
CheckCandidate(aMags, i, len, currentTime, buf, det) ==
  LET base == Baseline(aMags, Max(0, i - BASELINE_OFFSET))
      absIdx == AbsIndex(buf, i)
      dipEnd == Min(len, i + DIP_SEARCH_WINDOW)
      dipIdx == FindDip(aMags, i, len)
      recEnd == Min(len, dipIdx + RECOVERY_SEARCH_WINDOW)
      recIdx == FindRec(aMags, dipIdx, len)
      consensus == ConsensusOf(det, aMags, i, dipIdx, recIdx)
      calibResult == CalibResultOf(det, buf.data, i, dipIdx, recIdx, base)
      found ==
        /\ IsLocalMax(aMags, i)
        /\ ~BaselineIsNull(aMags, Max(0, i - BASELINE_OFFSET))
        /\ PeakGate(aMags, i, base)
        /\ ~TooClose(absIdx, det.lastShotIdx)
        /\ ~TooSoon(currentTime, det.lastShotTime)
        /\ ~(i + 1 >= dipEnd)
        /\ DipGate(aMags, dipIdx, base, det.core)
        /\ RangeGate(aMags, i, dipIdx, base, det.core)
        /\ ~(dipIdx + 1 >= recEnd)
        /\ RecGate(aMags, dipIdx, recIdx, base, det.core)
        /\ ~ConsensusRejects(det, consensus)
        /\ ~CalibrationRejects(calibResult)
  IN  IF found
        THEN [found |-> TRUE,
              shot |-> [idx |-> absIdx, bufferIdx |-> i, mag |-> At(aMags, i),
                        dipMag |-> At(aMags, dipIdx), recoveryMag |-> At(aMags, recIdx),
                        range |-> At(aMags, i) - At(aMags, dipIdx),
                        t |-> currentTime, consensus |-> consensus,
                        calibResult |-> calibResult]]
        ELSE [found |-> FALSE, shot |-> NullShot]

\* the scan "for (i = scanStart; i < scanEnd; i++)" returning the first result
ScanFrom(aMags, scanStart, scanEnd, len, currentTime, buf, det) ==
  LET hits == {i \in scanStart..(scanEnd - 1) :
                 CheckCandidate(aMags, i, len, currentTime, buf, det).found}
  IN  IF hits = {} THEN [found |-> FALSE, shot |-> NullShot]
      ELSE CheckCandidate(aMags, Least(hits), len, currentTime, buf, det)

\* ShotDetector.processSample: [found, shot]; a found shot is also written to
\* lastShotTime / lastShotIdx by the caller of this operator
processSample(buf, currentTime, det) ==
  LET len == Len(buf.data)
      aMags == ArrayOf([k \in 1..len |-> buf.data[k].aMag], len)
  IN  IF len < SCAN_START_OFFSET + BASELINE_WINDOW + BASELINE_OFFSET
        THEN [found |-> FALSE, shot |-> NullShot]
        ELSE ScanFrom(aMags, len - SCAN_START_OFFSET, len - SCAN_END_OFFSET,
                      len, currentTime, buf, det)

Detector == [lastShotTime |-> lastShotTime, lastShotIdx |-> lastShotIdx,
             useConsensus |-> useConsensus, consensusOpts |-> consensusOpts,
             core |-> core, calibration |-> calibration]

(***************************************************************************)
(* MovementDetector.  The window holds aMag in quarters of a m/s^2; the    *)
(* threshold on its std is compared exactly on the squares.  intensity is  *)
(* kept as the class of its value: "zero", "mid" (strictly between 0 and   *)
(* 1) or "one".                                                            *)
(***************************************************************************)
MOVEMENT_WINDOW == 20
MOVEMENT_THRESHOLD_X10 == 8
MOVEMENT_HYSTERESIS_MS == 800

NewMovementDetector ==
  [window |-> << >>, isMoving |-> FALSE, lastTransitionTime |-> 0, intensity |-> "zero"]

\* std > k10 / 10 and std >= k10 / 10 for the window statistics st = [n, sum, dev]
StdGt(st, k10) == st.dev * 100 > k10 * k10 * st.n * st.n * Ms2(1) * Ms2(1)
StdGe(st, k10) == st.dev * 100 >= k10 * k10 * st.n * st.n * Ms2(1) * Ms2(1)

\* variant of the dwell test that lets the detector go stationary at once
DwellOverAtOnce(t, lastTransitionTime) == t - lastTransitionTime >= 0

\* t - this.lastTransitionTime > MOVEMENT_HYSTERESIS_MS
DwellOver(t, lastTransitionTime) == t - lastTransitionTime > MOVEMENT_HYSTERESIS_MS

\* MovementDetector.processSample(aMag, t): the detector after the call
MovementDetector_processSample(md, aMag, t) ==
  LET pushed == Append(md.window, aMag)
      window == IF Len(pushed) > MOVEMENT_WINDOW THEN Tail(pushed) ELSE pushed
      st == Stats(window, 0, Len(window))
      \* Math.max(0, Math.min(1, (std - 0.3) / 1.5))
      intensity == IF StdGe(st, 18) THEN "one" ELSE IF StdGt(st, 3) THEN "mid" ELSE "zero"
      nowMoving == StdGt(st, MOVEMENT_THRESHOLD_X10)
  IN  IF Len(window) < MOVEMENT_WINDOW THEN [md EXCEPT !.window = window]
      ELSE IF nowMoving # md.isMoving
        THEN IF nowMoving
               THEN [window |-> window, intensity |-> intensity,
                     isMoving |-> TRUE, lastTransitionTime |-> t]
             ELSE IF DwellOver(t, md.lastTransitionTime)
               THEN [window |-> window, intensity |-> intensity,
                     isMoving |-> FALSE, lastTransitionTime |-> t]
             ELSE [md EXCEPT !.window = window, !.intensity = intensity]
      ELSE [md EXCEPT !.window = window, !.intensity = intensity,
                      !.lastTransitionTime = t]

(***************************************************************************)
(* The tracker page (tracker.js): isRecording, the stored calibration set  *)
(* and the motion-calibration wizard.  The fields cancelled, entered and   *)
(* finishes are the history of the current wizard run.                     *)
(***************************************************************************)
CALIB_STEPS ==
  << [key |-> "walking", duration |-> 10], [key |-> "running", duration |-> 10],
     [key |-> "dribbling", duration |-> 10], [key |-> "shooting", duration |-> 20] >>

\* the page after init(): not recording, no wizard, nothing stored
IdleTracker ==
  [ isRecording |-> FALSE,
    motionCalActive |-> FALSE,
    motionCalStep |-> -1,
    motionCalBuffers |-> [k \in {} |-> << >>],
    motionCalTimer |-> FALSE,       \* an interval of updateMotionCalCountdown is running
    motionCalCountdown |-> 0,
    advanceTimeouts |-> 0,          \* pending setTimeout(advanceMotionCalStep, 300)
    overlayHidden |-> TRUE,         \* cal-overlay
    resultModalHidden |-> TRUE,     \* cal-result-modal
    storage |-> NullCalibration,    \* localStorage item read by MotionCalibrator.load
    cancelled |-> FALSE,            \* cancelMotionCal ended the run
    entered |-> << >>,              \* steps started in the run
    finishes |-> 0 ]                \* finishMotionCal calls in the run

\* the page after startRecording
RecordingTracker == [IdleTracker EXCEPT !.isRecording = TRUE]

\* the number of sensor events of the recording
SigLenOf(in) == IF "len" \in DOMAIN in THEN in.len ELSE SigLen

\* motionCalBuffers.key || []
BufferOf(t, key) ==
  IF key \in DOMAIN t.motionCalBuffers THEN t.motionCalBuffers[key] ELSE << >>

\* onDeviceMotion: "Route to motion calibration buffer if active"
RouteToMotionCal(t, sample) ==
  IF t.motionCalActive /\ t.motionCalStep >= 0 /\ t.motionCalStep < Len(CALIB_STEPS)
    THEN LET stepKey == CALIB_STEPS[t.motionCalStep + 1].key
         IN  [t EXCEPT !.motionCalBuffers =
                         (stepKey :> Append(BufferOf(t, stepKey), sample)) @@ @]
    ELSE t

\* MotionCalibrator.calibrate: the calibration set (its profiles; timestamp
\* and patternCounts are not read by the detector), which it also saves
calibrate(walkingIMU, runningIMU, dribblingIMU, shootingIMU) ==
  [ null |-> FALSE, hasProfiles |-> TRUE,
    profiles |->
      [ walking |-> computeProfile(PatternList(extractPatterns(walkingIMU, "walking"))),
        running |-> computeProfile(PatternList(extractPatterns(runningIMU, "running"))),
        dribbling |->
          computeProfile(PatternList(extractPatterns(dribblingIMU, "dribbling"))),
        shooting |->
          computeProfile(PatternList(extractPatterns(shootingIMU, "shooting"))) ] ]

\* finishMotionCal: [tracker, calibration] after the call
finishMotionCal(t) ==
  LET Finished(cal) ==
        [ tracker |-> [t EXCEPT !.motionCalTimer = FALSE, !.motionCalActive = FALSE,
                                !.overlayHidden = TRUE, !.storage = cal,
                                !.resultModalHidden = FALSE, !.finishes = @ + 1],
          calibration |-> cal ]
  IN  Finished(calibrate(BufferOf(t, "walking"), BufferOf(t, "running"),
                         BufferOf(t, "dribbling"), BufferOf(t, "shooting")))

\* advanceMotionCalStep: [tracker, calibration] after the call
advanceMotionCalStep(t, cal) ==
  LET step == t.motionCalStep + 1
      t1 == [t EXCEPT !.motionCalStep = step]
  IN  IF step >= Len(CALIB_STEPS) THEN finishMotionCal(t1)
      ELSE [ tracker |->
               [t1 EXCEPT !.motionCalCountdown = CALIB_STEPS[step + 1].duration,
                          !.motionCalBuffers = (CALIB_STEPS[step + 1].key :> << >>) @@ @,
                          !.overlayHidden = FALSE,
                          !.motionCalTimer = TRUE,
                          !.entered = Append(@, step)],
             calibration |-> cal ]

\* updateMotionCalCountdown, countdown being Math.max(0, Math.ceil(step.duration
\* - elapsed)) at the time of the call
updateMotionCalCountdown(t, countdown) ==
  IF t.motionCalStep < 0 \/ t.motionCalStep >= Len(CALIB_STEPS) THEN t
  ELSE IF countdown <= 0
    THEN [t EXCEPT !.motionCalCountdown = countdown, !.motionCalTimer = FALSE,
                   !.advanceTimeouts = @ + 1]
    ELSE [t EXCEPT !.motionCalCountdown = countdown]

\* cancelMotionCal
cancelMotionCal(t) ==
  IF ~t.motionCalActive THEN t
  ELSE [t EXCEPT !.motionCalTimer = FALSE, !.motionCalActive = FALSE,
                 !.motionCalStep = -1, !.motionCalBuffers = [k \in {} |-> << >>],
                 !.overlayHidden = TRUE, !.cancelled = TRUE]

(***************************************************************************)
(* The tracker session: one sensor event per step, and batch re-analysis   *)
(* of the recording at any time.                                           *)
(***************************************************************************)
StreamMaxSize == 240    \* new IMUBuffer(maxSize, shiftSize) of the session
StreamShiftSize == 40
MaxBatchRuns == 2       \* detectAll calls per behaviour
BatchPeriod == 100      \* detectAll may be called every BatchPeriod sensor events

NoCall == [method |-> "none"]

InitDetector(c) ==
  /\ lastShotTime = 0
  /\ lastShotIdx = NegInfinity
  /\ useConsensus = FALSE
  /\ consensusOpts = NoOpts
  /\ core = c
  /\ calibration = NullCalibration

InitBuffer(max, shift) ==
  /\ data = << >>
  /\ totalPushed = 0
  /\ offset = 0
  /\ maxSize = max
  /\ shiftSize = shift

Init ==
  /\ InitBuffer(StreamMaxSize, StreamShiftSize)
  /\ InitDetector(TightenedCore)
  /\ input \in Inputs
  /\ liveShots = << >>
  /\ batchRuns = << >>
  /\ consCall = NoCall
  /\ movementDetector = NewMovementDetector
  /\ calibCall = NoCall
  /\ tracker = RecordingTracker

\* onDeviceMotion of the tracker: movementDetector.processSample(aMag, now);
\* sample = {t: now, tRel, aMag, ...}; buffer.push(sample);
\* shotDetector.processSample(buffer, now).  The waveform and the UI it also
\* feeds neither read nor write the buffer and the detectors and are left out;
\* the sample is also routed to the motion-calibration buffer of the active step.
HandleMotion ==
  /\ tracker.isRecording
  /\ totalPushed < SigLenOf(input)
  /\ \E sample \in {SampleAt(input, totalPushed)} :
       /\ tracker' = RouteToMotionCal(tracker, sample)
       /\ movementDetector' =
            MovementDetector_processSample(movementDetector, sample.aMag, sample.t)
       /\ \E buf \in {BufferPush(Buffer, sample)} :
            /\ data' = buf.data
            /\ totalPushed' = buf.totalPushed
            /\ offset' = buf.offset
       /\ \E result \in {processSample([Buffer EXCEPT !.data = data', !.offset = offset',
                                               !.totalPushed = totalPushed'],
                                       sample.t, Detector)} :
            /\ lastShotTime' = IF result.found THEN sample.t ELSE lastShotTime
            /\ lastShotIdx' = IF result.found THEN result.shot.idx ELSE lastShotIdx
            /\ liveShots' = IF result.found THEN Append(liveShots, result.shot) ELSE liveShots
  /\ UNCHANGED <<maxSize, shiftSize, useConsensus, consensusOpts, core, calibration,
                 input, batchRuns, consCall, calibCall>>

\* detector.detectAll(session.imu), here on the session's detector instance
RunDetectAll ==
  /\ Len(batchRuns) < MaxBatchRuns
  /\ totalPushed % BatchPeriod = 0
  /\ batchRuns' = Append(batchRuns, detectAll(Imu(input), Detector))
  /\ UNCHANGED <<bufVars, detVars, input, liveShots, consCall, movementDetector, calibCall,
                 tracker>>

Next == HandleMotion \/ RunDetectAll

Spec == Init /\ [][Next]_vars

(***************************************************************************)
(* The same session with js/core.js loaded (the copy the viewer and the    *)
(* backtest runner read).                                                  *)
(***************************************************************************)
CoreJsInputs == [base : {"quiet"}, shape : Shapes, layout : {<<0>>}, clock : {WallClock}]

InitCoreJs ==
  /\ InitBuffer(StreamMaxSize, StreamShiftSize)
  /\ InitDetector(CoreJs)
  /\ input \in CoreJsInputs
  /\ liveShots = << >>
  /\ batchRuns = << >>
  /\ consCall = NoCall
  /\ movementDetector = NewMovementDetector
  /\ calibCall = NoCall
  /\ tracker = RecordingTracker

SpecCoreJs == InitCoreJs /\ [][Next]_vars

(***************************************************************************)
(* An IMUBuffer of the default size fed by push alone.  The samples come   *)
(* from a clock that stamps the k-th sample (0-based) tRel = k.            *)
(***************************************************************************)
MaxPushes == 4100    \* pushes per behaviour
BurstLen == 250      \* samples delivered in a row by a burst

OrdinalClock == [dt |-> 1, zero |-> 0, epoch |-> 0]
BufInput == [base |-> "quiet", shape |-> GoodShape, layout |-> <<0>>, clock |-> OrdinalClock]

InitBuf ==
  /\ InitBuffer(DefaultMaxSize, DefaultShiftSize)
  /\ InitDetector(TightenedCore)
  /\ input = BufInput
  /\ liveShots = << >>
  /\ batchRuns = << >>
  /\ consCall = NoCall
  /\ movementDetector = NewMovementDetector
  /\ calibCall = NoCall
  /\ tracker = IdleTracker

\* buffer.push(sample)
Push ==
  /\ totalPushed < MaxPushes
  /\ \E buf \in {BufferPush(Buffer, SampleAt(input, totalPushed))} :
       /\ data' = buf.data
       /\ totalPushed' = buf.totalPushed
       /\ offset' = buf.offset
  /\ UNCHANGED <<maxSize, shiftSize, detVars, input, liveShots, batchRuns, consCall,
                 movementDetector, calibCall, tracker>>

\* the buffer after pushing the samples numbered lo .. hi-1 one after the
\* other: the first half of the range, then (once that buffer is known) the
\* second half
RECURSIVE PushRange(_, _, _, _)
PushRange(buf, in, lo, hi) ==
  IF hi <= lo THEN buf
  ELSE IF hi = lo + 1 THEN BufferPush(buf, SampleAt(in, lo))
  ELSE LET first == PushRange(buf, in, lo, Mid(lo, hi))
       IN  IF first.totalPushed >= 0 THEN PushRange(first, in, Mid(lo, hi), hi) ELSE buf

\* BurstLen calls of buffer.push(sample) in a row
PushBurst ==
  /\ totalPushed % BurstLen = 0
  /\ totalPushed + BurstLen <= MaxPushes
  /\ \E buf \in {PushRange(Buffer, input, totalPushed, totalPushed + BurstLen)} :
       /\ data' = buf.data
       /\ totalPushed' = buf.totalPushed
       /\ offset' = buf.offset
  /\ UNCHANGED <<maxSize, shiftSize, detVars, input, liveShots, batchRuns, consCall,
                 movementDetector, calibCall, tracker>>

NextBuf == Push \/ PushBurst

SpecBuf == InitBuf /\ [][NextBuf]_vars

(***************************************************************************)
(* Direct calls of the static ShotDetectorConsensus methods on a signal     *)
(* prefix, with peak and dip indices inside, at the edges of and outside   *)
(* the array; the methods keep no state, so a behaviour makes one call.    *)
(***************************************************************************)
ShortLen == 12     \* lengths of the arrays passed to the methods
MidLen == 45
LongLen == 150
Beyond == 10       \* how far past the end an index may point
MaxMinVotes == 5   \* largest configured minVotes

ConsLens == {ShortLen, MidLen, LongLen}
ConsInputs ==
  { [base |-> "quiet", shape |-> GoodShape, layout |-> <<0>>, clock |-> WallClock],
    [base |-> "noisy", shape |-> GoodShape, layout |-> <<0>>, clock |-> WallClock] }
PeakIdxs(len) == {-1, 0, 3, FirstPeak, len - 1, len, len + Beyond}
DipIdxs(len) == {-1, 0, FirstPeak + DipLag, len - 1, len}
MinVotesOpts == {<< >>} \cup {<<v>> : v \in 0..MaxMinVotes}

\* the first len aMag values of a recording
AMagsOf(in, len) == ArrayOf([k \in 1..len |-> AMagAt(in, k - 1)], len)

Call(method, in, len, peakIdx, dipIdx, minVotes, result) ==
  [method |-> method, in |-> in, len |-> len, peakIdx |-> peakIdx, dipIdx |-> dipIdx,
   minVotes |-> minVotes, result |-> result]

InitConsensus ==
  /\ InitBuffer(DefaultMaxSize, DefaultShiftSize)
  /\ InitDetector(TightenedCore)
  /\ input \in ConsInputs
  /\ liveShots = << >>
  /\ batchRuns = << >>
  /\ consCall = NoCall
  /\ movementDetector = NewMovementDetector
  /\ calibCall = NoCall
  /\ tracker = IdleTracker

CallWindowSigma ==
  /\ consCall = NoCall
  /\ \E len \in ConsLens : \E p \in PeakIdxs(len) :
       consCall' = Call("windowSigma", input, len, p, 0, << >>,
                        windowSigma(AMagsOf(input, len), p, NoOpts.windowSigma))
  /\ UNCHANGED <<sessionVars, calibCall>>

CallEnvelopeRatio ==
  /\ consCall = NoCall
  /\ \E len \in ConsLens : \E p \in PeakIdxs(len) :
       consCall' = Call("envelopeRatio", input, len, p, 0, << >>,
                        envelopeRatio(AMagsOf(input, len), p, NoOpts.envelopeRatio))
  /\ UNCHANGED <<sessionVars, calibCall>>

CallDipDepth ==
  /\ consCall = NoCall
  /\ \E len \in ConsLens : \E p \in PeakIdxs(len) : \E d \in DipIdxs(len) :
       consCall' = Call("dipDepth", input, len, p, d, << >>,
                        dipDepth(AMagsOf(input, len), p, d, NoOpts.dipDepth))
  /\ UNCHANGED <<sessionVars, calibCall>>

CallPeakProminence ==
  /\ consCall = NoCall
  /\ \E len \in ConsLens : \E p \in PeakIdxs(len) :
       consCall' = Call("peakProminence", input, len, p, 0, << >>,
                        peakProminence(AMagsOf(input, len), p, NoOpts.peakProminence))
  /\ UNCHANGED <<sessionVars, calibCall>>

CallEvaluate ==
  /\ consCall = NoCall
  /\ \E len \in ConsLens : \E p \in PeakIdxs(len) : \E d \in DipIdxs(len) :
     \E mv \in MinVotesOpts :
       consCall' = Call("evaluate", input, len, p, d, mv,
                        evaluate(AMagsOf(input, len), p, d, d + RecLag,
                                 [NoOpts EXCEPT !.minVotes = mv]))
  /\ UNCHANGED <<sessionVars, calibCall>>

NextConsensus ==
  CallWindowSigma \/ CallEnvelopeRatio \/ CallDipDepth \/ CallPeakProminence
  \/ CallEvaluate

SpecConsensus == InitConsensus /\ [][NextConsensus]_vars

(***************************************************************************)
(* Direct calls of MotionCalibrator.classify on candidates and calibration *)
(* sets.                                                                   *)
(***************************************************************************)
\* a vector of twelve whole numbers, one per feature
Feat(peak, dip, rec, ratio, ptd, dtr, gyro) ==
  [ peakMag |-> peak, dipMag |-> dip, recoveryMag |-> rec, range |-> peak - dip,
    dipRatio |-> ratio, peakToDipSamples |-> ptd, dipToRecSamples |-> dtr,
    totalDuration |-> ptd + dtr, gyroMagAtPeak |-> gyro, gyroMagAtDip |-> gyro,
    maxGyroInWindow |-> gyro, gyroDipToRec |-> gyro ]

\* the feature vector with the whole numbers of v
Whole(v) == [k \in DOMAIN v |-> Rat(v[k], 1)]

\* the profile of the two patterns mean - std and mean + std
Prof(mean, std) ==
  [ null |-> FALSE, count |-> 2,
    stats |-> [k \in FeatureKeys |-> [mean |-> mean[k], std |-> std[k],
                                      min |-> mean[k] - std[k], max |-> mean[k] + std[k]]] ]

\* dipRatio values of the candidates, around the stage-1 boundaries
DipRatios == {20, 40, 41, 50, 69, 70, 80, 90, 91}

NoFeatures == [k \in {} |-> 0]
ClassifyFeatures ==
  {Whole(Feat(Ms2(20), Ms2(2), Ms2(15), r, 12, 20, 100)) : r \in DipRatios}
  \cup {Whole(Feat(Ms2(14), Ms2(8), Ms2(11), r, 10, 10, 20)) : r \in DipRatios}
  \cup {Whole(Feat(Ms2(19), 14, 58, r, 10, 14, 80)) : r \in DipRatios}
  \cup {NoFeatures}

ShootingProfiles ==
  { NullProfile,
    Prof(Feat(Ms2(20), Ms2(2), Ms2(15), 20, 12, 20, 100), Feat(4, 2, 4, 10, 2, 2, 20)),
    Prof(Feat(Ms2(20), Ms2(2), Ms2(15), 20, 12, 20, 100), Feat(4, 2, 4, 0, 2, 2, 20)),
    Prof(Feat(Ms2(20), Ms2(2), Ms2(15), 20, 12, 20, 100), Feat(0, 0, 0, 0, 0, 0, 0)) }
WalkingProfiles ==
  { NullProfile,
    Prof(Feat(Ms2(14), Ms2(8), Ms2(11), 80, 10, 10, 20), Feat(4, 2, 4, 10, 2, 2, 20)) }
RunningProfiles ==
  { NullProfile,
    Prof(Feat(Ms2(18), Ms2(6), Ms2(14), 45, 8, 8, 50), Feat(8, 4, 4, 5, 2, 2, 20)) }
DribblingProfiles ==
  { NullProfile,
    Prof(Feat(Ms2(16), Ms2(7), Ms2(12), 60, 6, 6, 200), Feat(4, 4, 4, 10, 1, 1, 50)) }

\* {} : an object without profiles
EmptyCalibration ==
  [null |-> FALSE, hasProfiles |-> FALSE, profiles |-> [l \in {} |-> NullProfile]]

Calibrations ==
  { NullCalibration, EmptyCalibration }
  \cup { [null |-> FALSE, hasProfiles |-> TRUE,
          profiles |-> [walking |-> w, running |-> r, dribbling |-> d, shooting |-> sh]] :
           w \in WalkingProfiles, r \in RunningProfiles, d \in DribblingProfiles,
           sh \in ShootingProfiles }

InitClassify ==
  /\ InitBuffer(DefaultMaxSize, DefaultShiftSize)
  /\ InitDetector(TightenedCore)
  /\ input = BufInput
  /\ liveShots = << >>
  /\ batchRuns = << >>
  /\ consCall = NoCall
  /\ movementDetector = NewMovementDetector
  /\ calibCall = NoCall
  /\ tracker = IdleTracker

CallClassify ==
  /\ calibCall = NoCall
  /\ \E f \in ClassifyFeatures : \E cal \in Calibrations :
       calibCall' = [method |-> "classify", features |-> f, calibration |-> cal,
                     result |-> classify(f, cal)]
  /\ UNCHANGED <<sessionVars, consCall>>

SpecClassify == InitClassify /\ [][CallClassify]_vars

(***************************************************************************)
(* Direct calls of MotionCalibrator.computeProfile on lists of patterns    *)
(* (calibrate passes it the patterns mined from each activity).            *)
(***************************************************************************)
MaxPatterns == 3     \* longest list of freely chosen patterns
ManyPatterns == 10   \* length of the lists of identical patterns

\* a mined pattern with the given dipRatio and gyro magnitude
PatternOf(ratio, gyro) ==
  [ peakMag |-> DoubleOf(20, 1), dipMag |-> DoubleOf(2, 1),
    recoveryMag |-> DoubleOf(15, 1), range |-> DoubleOf(18, 1), dipRatio |-> ratio,
    peakToDipSamples |-> DoubleOf(12, 1), dipToRecSamples |-> DoubleOf(20, 1),
    totalDuration |-> DoubleOf(32, 1), gyroMagAtPeak |-> gyro, gyroMagAtDip |-> gyro,
    maxGyroInWindow |-> gyro, gyroDipToRec |-> gyro, label |-> "shooting", idx |-> 104 ]

\* dipRatio 2 / 9.75 is that of a 2 m/s^2 dip on the quiet baseline
ProfilePatterns ==
  { PatternOf(DoubleOf(8, 39), DoubleOf(5, 4)),
    PatternOf(DoubleOf(1, 10), DoubleOf(7, 10)),
    PatternOf(DoubleOf(1, 4), DoubleOf(1, 2)),
    PatternOf(DoubleOf(3, 10), DoubleOf(11, 10)),
    PatternOf(DoubleOf(3, 4), DoubleOf(2, 1)) }

PatternLists ==
  {NoPatterns}
  \cup {PatternList(l) : l \in UNION {[1..n -> ProfilePatterns] : n \in 0..MaxPatterns}}
  \cup {PatternList([k \in 1..ManyPatterns |-> p]) : p \in ProfilePatterns}

InitProfile ==
  /\ InitBuffer(DefaultMaxSize, DefaultShiftSize)
  /\ InitDetector(TightenedCore)
  /\ input = BufInput
  /\ liveShots = << >>
  /\ batchRuns = << >>
  /\ consCall = NoCall
  /\ movementDetector = NewMovementDetector
  /\ calibCall = NoCall
  /\ tracker = IdleTracker

CallComputeProfile ==
  /\ calibCall = NoCall
  /\ \E patterns \in PatternLists :
       calibCall' = [method |-> "computeProfile", patterns |-> patterns,
                     result |-> computeProfile(patterns)]
  /\ UNCHANGED <<sessionVars, consCall>>

SpecProfile == InitProfile /\ [][CallComputeProfile]_vars

(***************************************************************************)
(* The session with a stored calibration that has no shooting profile      *)
(* (shotDetector.calibration = MotionCalibrator.load()).                   *)
(***************************************************************************)
\* null, {} and the sets whose shooting profile is null
IneffectiveCalibrations ==
  {c \in Calibrations : c.null \/ ~c.hasProfiles \/ c.profiles["shooting"].null}

CalibratedInputs ==
  [base : {"quiet"}, shape : {GoodShape}, layout : {<<0>>, <<0, 60>>, <<0, 30, 125>>},
   clock : {WallClock}]

\* new ShotDetector()
FreshDetector ==
  [lastShotTime |-> 0, lastShotIdx |-> NegInfinity, useConsensus |-> FALSE,
   consensusOpts |-> NoOpts, core |-> TightenedCore, calibration |-> NullCalibration]

InitCalibrated ==
  /\ InitBuffer(StreamMaxSize, StreamShiftSize)
  /\ lastShotTime = 0
  /\ lastShotIdx = NegInfinity
  /\ useConsensus = FALSE
  /\ consensusOpts = NoOpts
  /\ core = TightenedCore
  /\ calibration \in IneffectiveCalibrations
  /\ input \in CalibratedInputs
  /\ liveShots = << >>
  /\ batchRuns = << >>
  /\ consCall = NoCall
  /\ movementDetector = NewMovementDetector
  /\ calibCall = NoCall
  /\ tracker = RecordingTracker

SpecCalibrated == InitCalibrated /\ [][Next]_vars

(***************************************************************************)
(* The session on recordings whose dip and recovery lie at the far ends of *)
(* the search windows.                                                     *)
(***************************************************************************)
\* one good event on the quiet and on the noisy baseline, the dip 34 or 35
\* samples after the peak and the recovery 29 or 30 samples after the dip
WindowInputs ==
  [base : {"quiet", "noisy"}, shape : {GoodShape}, layout : {<<0>>, <<60>>},
   clock : {WallClock},
   dipLag : {DIP_SEARCH_WINDOW - 1, DIP_SEARCH_WINDOW},
   recLag : {RECOVERY_SEARCH_WINDOW - 1, RECOVERY_SEARCH_WINDOW}]

InitWindows ==
  /\ InitBuffer(StreamMaxSize, StreamShiftSize)
  /\ InitDetector(TightenedCore)
  /\ input \in WindowInputs
  /\ liveShots = << >>
  /\ batchRuns = << >>
  /\ consCall = NoCall
  /\ movementDetector = NewMovementDetector
  /\ calibCall = NoCall
  /\ tracker = RecordingTracker

SpecWindows == InitWindows /\ [][Next]_vars

(***************************************************************************)
(* A recording replayed through a fresh default buffer and a fresh         *)
(* detector, and analysed by detectAll.                                    *)
(***************************************************************************)
\* a sensor delivering about 60 events per second
SixtyHzClock == [dt |-> 16, zero |-> 0, epoch |-> 5000]

\* two good events 60, 65 or 125 samples apart under every clock
ReplayInputs ==
  [base : {"quiet"}, shape : {GoodShape}, layout : {<<0, 60>>, <<36, 101>>, <<0, 125>>},
   clock : Clocks \cup {SixtyHzClock}]

InitReplay ==
  /\ InitBuffer(DefaultMaxSize, DefaultShiftSize)
  /\ InitDetector(TightenedCore)
  /\ input \in ReplayInputs
  /\ liveShots = << >>
  /\ batchRuns = << >>
  /\ consCall = NoCall
  /\ movementDetector = NewMovementDetector
  /\ calibCall = NoCall
  /\ tracker = RecordingTracker

SpecReplay == InitReplay /\ [][Next]_vars

(***************************************************************************)
(* The session with the post-filters enabled: useConsensus set on the      *)
(* detector, a stored calibration loaded at startRecording, or both.       *)
(***************************************************************************)
\* the event whose peak, dip and recovery sit on the absolute thresholds
ShallowShape == [peak |-> Ms2(14), dip |-> Ms2(6), rec |-> Ms2(11)]

\* a calibration set whose shooting patterns differ in dipRatio only (20 +-
\* 10) and whose dribbling patterns differ in dipRatio only (60 +- 10)
ShallowDipCalibration ==
  [null |-> FALSE, hasProfiles |-> TRUE,
   profiles |->
     [walking |-> NullProfile, running |-> NullProfile,
      dribbling |-> Prof(Feat(Ms2(16), Ms2(7), Ms2(12), 60, 6, 6, 200),
                         Feat(0, 0, 0, 10, 0, 0, 0)),
      shooting |-> Prof(Feat(Ms2(20), Ms2(2), Ms2(15), 20, 12, 20, 100),
                        Feat(0, 0, 0, 10, 0, 0, 0))]]

FilterInputs ==
  [base : {"quiet"}, shape : {GoodShape, ShallowShape}, layout : {<<0, 30>>, <<0, 60>>},
   clock : {WallClock}]

InitFiltered ==
  /\ InitBuffer(StreamMaxSize, StreamShiftSize)
  /\ lastShotTime = 0
  /\ lastShotIdx = NegInfinity
  /\ useConsensus \in BOOLEAN
  /\ consensusOpts = NoOpts
  /\ core = TightenedCore
  /\ calibration \in {NullCalibration, ShallowDipCalibration}
  /\ input \in FilterInputs
  /\ liveShots = << >>
  /\ batchRuns = << >>
  /\ consCall = NoCall
  /\ movementDetector = NewMovementDetector
  /\ calibCall = NoCall
  /\ tracker = RecordingTracker

SpecFiltered == InitFiltered /\ [][Next]_vars

(***************************************************************************)
(* The tracker page with the motion-calibration wizard: the user's clicks, *)
(* the countdown interval, the 300 ms advance timeout and the sensor       *)
(* events, in every order the browser's event loop allows.  A pending      *)
(* 300 ms timeout is due before the next tick of a 1000 ms interval, so    *)
(* the interval does not tick while an advance is pending.                 *)
(***************************************************************************)
MaxCalSamples == 2     \* sensor events delivered per recording

\* a recording of MaxCalSamples sensor events
WizardInput ==
  [base |-> "quiet", shape |-> GoodShape, layout |-> <<0>>, clock |-> WallClock,
   len |-> MaxCalSamples]

InitWizard ==
  /\ InitBuffer(DefaultMaxSize, DefaultShiftSize)
  /\ InitDetector(TightenedCore)
  /\ input = WizardInput
  /\ liveShots = << >>
  /\ batchRuns = << >>
  /\ consCall = NoCall
  /\ movementDetector = NewMovementDetector
  /\ calibCall = NoCall
  /\ \E stored \in {NullCalibration, ShallowDipCalibration} :
       tracker = [IdleTracker EXCEPT !.storage = stored]

\* startRecording: new Session, IMUBuffer, ShotDetector and MovementDetector,
\* isRecording = true, the stored calibration loaded into the detector
StartRecording ==
  /\ ~tracker.isRecording
  /\ data' = << >> /\ totalPushed' = 0 /\ offset' = 0
  /\ maxSize' = DefaultMaxSize /\ shiftSize' = DefaultShiftSize
  /\ lastShotTime' = 0 /\ lastShotIdx' = NegInfinity
  /\ useConsensus' = FALSE /\ consensusOpts' = NoOpts
  /\ calibration' = tracker.storage
  /\ movementDetector' = NewMovementDetector
  /\ liveShots' = << >>
  /\ tracker' = [tracker EXCEPT !.isRecording = TRUE]
  /\ UNCHANGED <<core, input, batchRuns, consCall, calibCall>>

\* stopRecording: isRecording = false, the sensor listener removed,
\* cancelMotionCal()
StopRecording ==
  /\ tracker.isRecording
  /\ tracker' = cancelMotionCal([tracker EXCEPT !.isRecording = FALSE])
  /\ UNCHANGED <<bufVars, detVars, input, liveShots, batchRuns, consCall, movementDetector,
                 calibCall>>

\* the tracker and the detector's calibration after a wizard handler
WizardStep(r) ==
  /\ tracker' = r.tracker
  /\ calibration' = r.calibration
  /\ UNCHANGED <<bufVars, lastShotTime, lastShotIdx, useConsensus, consensusOpts, core,
                 input, liveShots, batchRuns, consCall, movementDetector, calibCall>>

\* click on btn-motion-cal: startMotionCal
StartMotionCal ==
  /\ tracker.isRecording /\ ~tracker.motionCalActive
  /\ WizardStep(advanceMotionCalStep(
        [tracker EXCEPT !.motionCalActive = TRUE, !.motionCalStep = -1,
                        !.motionCalBuffers = [k \in {} |-> << >>],
                        !.cancelled = FALSE, !.entered = << >>, !.finishes = 0],
        calibration))

\* a tick of the countdown interval: the countdown has gone down by one or
\* (after a late tick) has run out
Tick ==
  /\ tracker.motionCalTimer /\ tracker.advanceTimeouts = 0
  /\ \E countdown \in {Max(0, tracker.motionCalCountdown - 1), 0} :
       WizardStep([tracker |-> updateMotionCalCountdown(tracker, countdown),
                   calibration |-> calibration])

\* the callback of setTimeout(advanceMotionCalStep, 300)
AdvanceTimeout ==
  /\ tracker.advanceTimeouts > 0
  /\ WizardStep(advanceMotionCalStep([tracker EXCEPT !.advanceTimeouts = @ - 1],
                                     calibration))

\* click on cal-skip (a button of the overlay): skipMotionCalStep
Skip ==
  /\ ~tracker.overlayHidden
  /\ WizardStep(advanceMotionCalStep([tracker EXCEPT !.motionCalTimer = FALSE],
                                     calibration))

\* click on cal-cancel (a button of the overlay): cancelMotionCal
Cancel ==
  /\ ~tracker.overlayHidden
  /\ WizardStep([tracker |-> cancelMotionCal(tracker), calibration |-> calibration])

\* click on cal-result-ok: closeCalResult
CloseCalResult ==
  /\ ~tracker.resultModalHidden
  /\ WizardStep([tracker |-> [tracker EXCEPT !.resultModalHidden = TRUE],
                 calibration |-> calibration])

\* click on cal-result-clear: clearCalResult
ClearCalResult ==
  /\ ~tracker.resultModalHidden
  /\ WizardStep([tracker |-> [tracker EXCEPT !.resultModalHidden = TRUE,
                                             !.storage = NullCalibration],
                 calibration |-> NullCalibration])

NextWizard ==
  \/ StartRecording \/ StopRecording \/ HandleMotion
  \/ StartMotionCal \/ Tick \/ AdvanceTimeout \/ Skip \/ Cancel
  \/ CloseCalResult \/ ClearCalResult

SpecWizard == InitWizard /\ [][NextWizard]_vars

(***************************************************************************)
(* Direct calls of MotionCalibrator.extractPatterns on the first samples   *)
(* of a recording (calibrate passes it the recording of each activity).    *)
(***************************************************************************)
RecordingLens == {0, 59, 60, 150, 220, SigLen}
ActivityLabels == {"walking", "running", "dribbling", "shooting"}

\* the recordings mined: those of the sessions, and a bouncy one
PatternInputs ==
  Inputs \cup [base : {"bouncy"}, shape : {GoodShape}, layout : {<<0>>, <<0, 30>>},
               clock : {WallClock}]

\* the first len samples of the recording
Recording(in, len) == ArrayOf([k \in 1..len |-> SampleAt(in, k - 1)], len)

InitPatterns ==
  /\ InitBuffer(DefaultMaxSize, DefaultShiftSize)
  /\ InitDetector(TightenedCore)
  /\ input \in PatternInputs
  /\ liveShots = << >>
  /\ batchRuns = << >>
  /\ consCall = NoCall
  /\ movementDetector = NewMovementDetector
  /\ calibCall = NoCall
  /\ tracker = IdleTracker

CallExtractPatterns ==
  /\ calibCall = NoCall
  /\ \E len \in RecordingLens : \E label \in ActivityLabels :
       calibCall' = [method |-> "extractPatterns", len |-> len, label |-> label,
                     result |-> extractPatterns(Recording(input, len), label)]
  /\ UNCHANGED <<sessionVars, consCall>>

SpecPatterns == InitPatterns /\ [][CallExtractPatterns]_vars

(***************************************************************************)
(* Properties                                                              *)
(***************************************************************************)
\* the recording as an array of aMag values, indexed from the first sample
Signal == AMagsOf(input, SigLen)

\* the baseline window of a peak at absolute index idx of the recording sig,
\* as [n, sum, dev]
BaseOf(sig, idx) ==
  Stats(sig, idx - BASELINE_OFFSET - BASELINE_WINDOW, idx - BASELINE_OFFSET)

\* every shot reported so far, by the stream or by a batch run
AllShots ==
  {liveShots[a] : a \in DOMAIN liveShots}
  \cup UNION {{batchRuns[r][a] : a \in DOMAIN batchRuns[r]} : r \in DOMAIN batchRuns}

\* every pair of shots of the list is at least gap samples apart
Spaced(shots, gap) ==
  \A a, b \in DOMAIN shots : a < b => shots[b].idx - shots[a].idx >= gap

\* every shot of the list is at least ms later than the one before it
Paced(shots, ms) ==
  \A a \in DOMAIN shots : a > 1 => shots[a].t - shots[a - 1].t >= ms

\* C1: in one run any two accepted shots have peak indices at least 60
\* samples apart, in detectAll and in the stream (absolute indices, also
\* across a compaction); two identical signatures 30 samples apart give
\* exactly one shot, and no peak is reported twice.
C1_MinSampleSeparation ==
  /\ Spaced(liveShots, 60)
  /\ \A r \in DOMAIN batchRuns : Spaced(batchRuns[r], 60)
  /\ (input.shape = GoodShape /\ input.layout = <<0, 30>>) =>
       /\ Len(liveShots) <= 1
       /\ totalPushed = SigLen => Len(liveShots) = 1
       /\ \A r \in DOMAIN batchRuns : Len(batchRuns[r]) = 1

\* two streamed shots either side of a compaction, with a qualifying peak
\* between them suppressed, and the same two shots from a batch run
C1_Witness ==
  /\ input.layout = <<0, 30, 125>>
  /\ Len(liveShots) = 2
  /\ liveShots[1].idx = FirstPeak /\ liveShots[1].bufferIdx = liveShots[1].idx
  /\ liveShots[2].idx = FirstPeak + 125 /\ liveShots[2].bufferIdx < liveShots[2].idx
  /\ Len(batchRuns) > 0 /\ Len(batchRuns[1]) = 2

\* C2: consecutive shots of detectAll have peak timestamps at least 1200 ms
\* apart and consecutive shots of the stream have call times at least
\* 1200 ms apart, for every non-decreasing timestamp sequence, timestamps
\* equal to 0 included.
C2_MinTimeSeparation ==
  /\ Paced(liveShots, 1200)
  /\ \A r \in DOMAIN batchRuns : Paced(batchRuns[r], 1200)

\* C3: every shot accepted by detectAll or by the stream has peak >= 14,
\* dip <= 6, peak-to-dip range >= 8 and recovery minus dip >= 5.
C3_AbsoluteThresholds ==
  \A s \in AllShots :
    /\ s.mag >= Ms2(14)
    /\ s.dipMag <= Ms2(6)
    /\ s.range >= Ms2(8)
    /\ s.recoveryMag - s.dipMag >= Ms2(5)

C5_HeavyMotionRejected ==
  LET b == BaseOf(Signal, FirstPeak)
  IN  ( /\ 4 * b.dev = (b.n * Ms2(5)) * (b.n * Ms2(5))
        /\ At(Signal, FirstPeak) = Ms2(16)
        /\ 4 * (b.n * At(Signal, FirstPeak) - b.sum) = 3 * Ms2(5) * b.n )
      => \A s \in AllShots : s.idx # FirstPeak

\* C6: a quiet baseline with one peak of 20, a dip of 2 twelve samples later
\* and a recovery of 15 twenty samples after the dip is reported by
\* detectAll as exactly one shot at the peak index, with range 18 = peak
\* minus dip, dipMag 2 and recoveryMag 15.
C6_ScenarioA ==
  (input.base = "quiet" /\ input.shape = GoodShape /\ input.layout = <<0>>) =>
    \A r \in DOMAIN batchRuns :
      /\ Len(batchRuns[r]) = 1
      /\ batchRuns[r][1].idx = FirstPeak
      /\ batchRuns[r][1].mag = Ms2(20)
      /\ batchRuns[r][1].dipMag = Ms2(2)
      /\ batchRuns[r][1].recoveryMag = Ms2(15)
      /\ batchRuns[r][1].range = Ms2(18)
      /\ batchRuns[r][1].range = batchRuns[r][1].mag - batchRuns[r][1].dipMag

\* detectAll has returned on the scenario's recording
C6_Witness ==
  /\ input.base = "quiet" /\ input.shape = GoodShape /\ input.layout = <<0>>
  /\ At(Signal, FirstPeak + 12) = Ms2(2) /\ At(Signal, FirstPeak + 12 + 20) = Ms2(15)
  /\ batchRuns # << >> /\ Len(batchRuns[1]) = 1

\* C7: detectAll neither reads nor writes lastShotTime / lastShotIdx: every
\* run on the recording returns the same ordered list, also between
\* streaming calls on the same detector, and the two fields are those left
\* by the stream alone.
C7_BatchStateless ==
  /\ \A r \in DOMAIN batchRuns : batchRuns[r] = batchRuns[1]
  /\ lastShotIdx = IF liveShots = << >> THEN NegInfinity
                   ELSE liveShots[Len(liveShots)].idx
  /\ lastShotTime = IF liveShots = << >> THEN 0 ELSE liveShots[Len(liveShots)].t

\* two non-empty batch runs on a detector whose stream has reported a shot
C7_Witness ==
  /\ Len(batchRuns) = 2 /\ batchRuns[1] # << >>
  /\ liveShots # << >> /\ lastShotIdx = FirstPeak /\ lastShotTime > 0

\* C8: with the default capacity 3000 / shift 1000, the sample that was the
\* k-th pushed and sits at position i has absIndex(i) = k; offset + length
\* = totalPushed; absolute indices strictly increase in push order (so none
\* is given to two samples).
C8_StableAbsoluteIndices ==
  /\ maxSize = 3000 /\ shiftSize = 1000
  /\ offset + Len(data) = totalPushed
  /\ \A i \in 0..(Len(data) - 1) : AbsIndex(Buffer, i) = data[i + 1].tRel
  /\ \A i \in 0..(Len(data) - 2) : AbsIndex(Buffer, i) < AbsIndex(Buffer, i + 1)

\* the buffer after its second compaction
C8_Witness ==
  /\ offset = 2000 /\ Len(data) > 2000 /\ totalPushed > 4000

\* C9: evaluate returns isShot = (votes >= minVotes) for every configured
\* minVotes (3 when none is configured), votes being the number of methods
\* voting true; flipping one method's vote changes isShot only when the
\* count crosses minVotes.
C9_Quorum ==
  (consCall.method = "evaluate" /\ ~consCall.result.threw) =>
    LET r == consCall.result
        minVotes == IF consCall.minVotes = << >> THEN 3 ELSE consCall.minVotes[1]
        opts == [NoOpts EXCEPT !.minVotes = consCall.minVotes]
    IN  /\ r.votes = Cardinality({m \in 1..4 : r.methods[m].vote})
        /\ r.isShot = (r.votes >= minVotes)
        /\ \A m \in 1..4 :
             LET f == Aggregate([r.methods EXCEPT ![m].vote = ~@], opts)
             IN  f.isShot # r.isShot => (f.votes >= minVotes) # (r.votes >= minVotes)

\* C10: a consensus method whose index is at the first or last position of
\* the signal or outside it returns vote = false with confidence 0 and does
\* not throw.
C10_EdgeHandling ==
  LET idx == IF consCall.method = "dipDepth" THEN consCall.dipIdx ELSE consCall.peakIdx
  IN  ( /\ consCall.method \in {"windowSigma", "envelopeRatio", "dipDepth", "peakProminence"}
        /\ (idx <= 0 \/ idx >= consCall.len - 1) )
      => /\ ~consCall.result.threw
         /\ consCall.result.vote = FALSE
         /\ consCall.result.conf = "zero"


\* C11: for every signal and every peak / dip index inside it, each of the
\* four consensus methods returns a confidence in the closed interval [0, 1].
C11_ConfidenceRange ==
  ( /\ consCall.method \in {"windowSigma", "envelopeRatio", "dipDepth", "peakProminence"}
    /\ Defined(AMagsOf(consCall.in, consCall.len), consCall.peakIdx)
    /\ Defined(AMagsOf(consCall.in, consCall.len), consCall.dipIdx) )
  => /\ ~consCall.result.threw
     /\ consCall.result.conf \in {"zero", "mid", "one"}


\* C19: the shots returned by detectAll never contain a cluster of three or
\* more shots lying within 12 seconds of each other.
C19_NoBurst ==
  \A r \in DOMAIN batchRuns :
    \A a, b, c \in DOMAIN batchRuns[r] :
      (a < b /\ b < c) => batchRuns[r][c].t - batchRuns[r][a].t > 12000

\* C20 as stated: a reported peak index i has aMag[i] > aMag[i+1] and
\* aMag[i] >= aMag[i-1], so that on a flat-topped peak of two equal samples
\* the later one is the candidate.
C20_LocalMaxLater ==
  \A s \in AllShots :
    /\ AMagAt(input, s.idx) > AMagAt(input, s.idx + 1)
    /\ AMagAt(input, s.idx) >= AMagAt(input, s.idx - 1)

\* C20 as amended: a reported peak index i has aMag[i] > aMag[i-1] and
\* aMag[i] >= aMag[i+1]; on a flat-topped peak of two equal samples the
\* earlier one is the candidate and the later one is not.
C20_LocalMaxEarlier ==
  \A s \in AllShots :
    /\ AMagAt(input, s.idx) > AMagAt(input, s.idx - 1)
    /\ AMagAt(input, s.idx) >= AMagAt(input, s.idx + 1)
    /\ (input.layout = <<0, 1>> /\ input.shape = GoodShape /\ input.base = "quiet")
         => s.idx = FirstPeak

\* a shot reported on the earlier sample of a flat-topped peak, by a batch
\* run and by the stream
C20_Witness ==
  /\ input.layout = <<0, 1>>
  /\ AMagAt(input, FirstPeak) = AMagAt(input, FirstPeak + 1)
  /\ \E r \in DOMAIN batchRuns : \E a \in DOMAIN batchRuns[r] : batchRuns[r][a].idx = FirstPeak
  /\ \E a \in DOMAIN liveShots : liveShots[a].idx = FirstPeak


\* the std of the 20-sample window ending at sample k of the recording is
\* above the movement threshold
ShakingAt(sig, k) ==
  StdGt(Stats(sig, k + 1 - MOVEMENT_WINDOW, k + 1), MOVEMENT_THRESHOLD_X10)

\* C18: whenever the movement detector switches isMoving from true to false
\* at a sample with timestamp t, every sample processed with a timestamp in
\* [t - 800, t] had a 20-sample window std at or below 0.8.
C18_HysteresisDwell ==
  [][ (movementDetector.isMoving /\ ~movementDetector'.isMoving) =>
        LET sig == Signal
            t == TimeAt(input, totalPushed)
        IN  \A k \in (MOVEMENT_WINDOW - 1)..totalPushed :
              TimeAt(input, k) >= t - MOVEMENT_HYSTERESIS_MS => ~ShakingAt(sig, k) ]_vars

\* the detector was moving at the first peak and is stationary again
C18_Witness ==
  /\ totalPushed > FirstPeak
  /\ ShakingAt(Signal, FirstPeak)
  /\ ~movementDetector.isMoving
  /\ movementDetector.lastTransitionTime = TimeAt(input, totalPushed - 1)


\* C12: classify returns isShot = true when the calibration is null, when
\* it is {} (no profiles) and when its shooting profile is null, for every
\* feature vector.
C12_FailOpen ==
  ( /\ calibCall.method = "classify"
    /\ \/ calibCall.calibration.null
       \/ ~calibCall.calibration.hasProfiles
       \/ calibCall.calibration.profiles["shooting"].null )
  => calibCall.result.isShot

\* classify was called with a null calibration, with {} and with a set whose
\* shooting profile is null but which has a noise profile
C12_Witness ==
  /\ calibCall.method = "classify"
  /\ calibCall.result.isShot
  /\ calibCall.calibration.hasProfiles
  /\ calibCall.calibration.profiles["shooting"].null
  /\ ~calibCall.calibration.profiles["walking"].null
  /\ calibCall.features # NoFeatures


\* the call is a classify call on a complete feature vector and a
\* calibration set with a shooting profile
Classified ==
  /\ calibCall.method = "classify"
  /\ calibCall.features # NoFeatures
  /\ calibCall.calibration.hasProfiles
  /\ ~calibCall.calibration.profiles["shooting"].null

\* the candidate's dipRatio lies within one std of the dipRatio mean of some
\* non-null noise profile
MatchesNoise ==
  \E l \in {"walking", "running", "dribbling"} :
    LET prof == calibCall.calibration.profiles[l]
        x == calibCall.features["dipRatio"]
    IN  /\ ~prof.null
        /\ x.num >= (prof.stats["dipRatio"].mean - prof.stats["dipRatio"].std) * x.den
        /\ x.num <= (prof.stats["dipRatio"].mean + prof.stats["dipRatio"].std) * x.den

\* C13 as stated: for every calibration set with a non-null shooting
\* profile, a candidate whose dipRatio exceeds the shooting profile's mean +
\* 2 std and matches a noise profile is rejected with confidence 0.9.
C13_HardReject ==
  ( /\ Classified
    /\ LET shoot == calibCall.calibration.profiles["shooting"].stats["dipRatio"]
           x == calibCall.features["dipRatio"]
       IN  x.num > (shoot.mean + 2 * shoot.std) * x.den
    /\ MatchesNoise )
  => /\ ~calibCall.result.isShot
     /\ calibCall.result.confidence = [num |-> 9, den |-> 10]

\* C13 as amended: the same for every calibration set whose shooting profile
\* is non-null and has a dipRatio std above 0.
C13_HardRejectWithSpread ==
  ( /\ Classified
    /\ LET shoot == calibCall.calibration.profiles["shooting"].stats["dipRatio"]
           x == calibCall.features["dipRatio"]
       IN  /\ shoot.std > 0
           /\ x.num > (shoot.mean + 2 * shoot.std) * x.den
    /\ MatchesNoise )
  => /\ ~calibCall.result.isShot
     /\ calibCall.result.confidence = [num |-> 9, den |-> 10]
     /\ calibCall.result.reason.kind = "matches"

\* a hard reject of a candidate whose dipRatio is just above mean + 2 std
C13_Witness ==
  /\ Classified
  /\ calibCall.features["dipRatio"] = Rat(41, 1)
  /\ calibCall.calibration.profiles["shooting"].stats["dipRatio"].std = 10
  /\ MatchesNoise
  /\ calibCall.result.reason = [kind |-> "matches", label |-> "running"]

\* C14: when stage 1 does not reject, classify returns isShot = true exactly
\* when the distance to the shooting profile does not exceed the minimum
\* distance to the three noise profiles plus 0.5 (a null profile being
\* infinitely far); when it rejects, it reports an activity whose distance
\* equals that minimum.
C14_NearestProfile ==
  ( Classified /\ calibCall.result.reason.kind # "matches" ) =>
    LET f == calibCall.features
        profiles == calibCall.calibration.profiles
        ds == distTo(f, profiles["shooting"])
        dn == [l \in {"walking", "running", "dribbling"} |-> distTo(f, profiles[l])]
        \* a <= b + m2 / 2 on fractions, den = 0 standing for Infinity
        Within(a, b, m2) ==
          IF b.den = 0 THEN TRUE ELSE IF a.den = 0 THEN FALSE
          ELSE 2 * a.num * b.den <= 2 * b.num * a.den + m2 * a.den * b.den
    IN  /\ calibCall.result.isShot = (\A l \in DOMAIN dn : Within(ds, dn[l], 1))
        /\ ~calibCall.result.isShot =>
             /\ calibCall.result.reason.kind = "closer to"
             /\ calibCall.result.reason.label \in DOMAIN dn
             /\ \A l \in DOMAIN dn : Within(dn[calibCall.result.reason.label], dn[l], 0)

\* a stage-2 reject naming running although a walking profile is present, and
\* the shooting profile within the margin of the nearest noise profile
C14_Witness ==
  /\ Classified
  /\ \/ /\ calibCall.result.reason = [kind |-> "closer to", label |-> "running"]
        /\ ~calibCall.calibration.profiles["walking"].null
     \/ /\ calibCall.result.reason.kind = "shot dist"
        /\ ~calibCall.calibration.profiles["walking"].null
        /\ calibCall.result.confidence.den > 1

\* C16: every pattern extractPatterns returns is a local maximum whose peakMag
\* is at least 11.0 and at least globalMean + 1.0 * globalStd, with a drop to
\* the dip of at least 3.0 and a rise to the recovery of at least 2.0; the
\* patterns are in increasing order of peak index, at least 20 samples apart;
\* each carries the 12 features as finite numbers; and a recording shorter
\* than 60 samples yields the empty list.
C16_PatternThresholds ==
  calibCall.method = "extractPatterns" =>
    LET n == calibCall.len
        ps == calibCall.result
        sum == SumFrom(AMagsOf(input, n), 0, n)
        sumSq == SumSqFrom(AMagsOf(input, n), 0, n)
    IN  /\ n < 60 => ps = << >>
        /\ \A j \in DOMAIN ps :
             LET p == ps[j]
                 i == p.idx
                 x == AMagAt(input, i)
             IN  /\ i >= 1 /\ i + 1 < n
                 /\ x > AMagAt(input, i - 1) /\ x >= AMagAt(input, i + 1)
                 /\ p.peakMag = Rat(x, 1)
                 /\ x >= Ms2(11)
                 \* x >= mean + std, on n * x - sum and n^2 * variance
                 /\ n * x >= sum
                 /\ (n * x - sum) * (n * x - sum) >= n * sumSq - sum * sum
                 /\ p.peakMag.num - p.dipMag.num >= Ms2(3)
                 /\ p.recoveryMag.num - p.dipMag.num >= Ms2(2)
                 /\ \A k \in FeatureKeys : k \in DOMAIN p /\ p[k].den > 0
                 /\ p.label = calibCall.label
                 /\ j > 1 => i - ps[j - 1].idx >= 20

\* a recording from which several patterns are mined, two of them exactly 20
\* samples apart and one with a dipRatio that is not a whole number
C16_Witness ==
  /\ calibCall.method = "extractPatterns"
  /\ Len(calibCall.result) >= 3
  /\ \E j \in 2..Len(calibCall.result) :
       calibCall.result[j].idx - calibCall.result[j - 1].idx = 20
  /\ \E j \in 1..Len(calibCall.result) : calibCall.result[j].dipRatio.den > 1

\* the fields idx, mag, dipMag, recoveryMag and range of a list of shots
ShotCore(shots) ==
  [j \in DOMAIN shots |->
     [idx |-> shots[j].idx, mag |-> shots[j].mag, dipMag |-> shots[j].dipMag,
      recoveryMag |-> shots[j].recoveryMag, range |-> shots[j].range]]

\* C17: with useConsensus false and a calibration that is null, {} or a set
\* with a null shooting profile, detectAll returns the same ordered list of
\* peak indices, with the same mag, dipMag, recoveryMag and range, as a
\* freshly constructed detector does on the same samples.
C17_DetectionUnchanged ==
  [][(batchRuns' # batchRuns /\ ~useConsensus
      /\ (calibration.null \/ ~calibration.hasProfiles
            \/ calibration.profiles["shooting"].null))
       => ShotCore(batchRuns'[Len(batchRuns')])
            = ShotCore(detectAll(Imu(input), FreshDetector))]_vars

\* a batch run that found two shots under a calibration set with noise
\* profiles and no shooting profile, each shot classified and let through
C17_Witness ==
  /\ ~calibration.null /\ calibration.hasProfiles
  /\ calibration.profiles["shooting"].null
  /\ ~calibration.profiles["walking"].null
  /\ \E k \in DOMAIN batchRuns :
       /\ Len(batchRuns[k]) >= 2
       /\ \A j \in DOMAIN batchRuns[k] :
            /\ batchRuns[k][j].calibResult # NullCalibResult
            /\ batchRuns[k][j].calibResult.isShot

\* C15: computeProfile returns null exactly when the pattern list is empty or
\* missing; otherwise count is the number of patterns, and a list of identical
\* patterns gives, for every feature, std = 0 and mean = min = max = the
\* shared value.
C15_ProfileStats ==
  calibCall.method = "computeProfile" =>
    LET ps == calibCall.patterns.list
        r == calibCall.result
    IN  /\ r.null <=> (calibCall.patterns.missing \/ ps = << >>)
        /\ ~r.null => r.count = Len(ps)
        /\ (~r.null /\ \A k \in DOMAIN ps : ps[k] = ps[1]) =>
             \A key \in FeatureKeys :
               /\ r.stats[key].stdIsZero
               /\ r.stats[key].mean = ps[1][key]
               /\ r.stats[key].min = ps[1][key]
               /\ r.stats[key].max = ps[1][key]


\* C26: a sample that changes isMoving sets lastTransitionTime to its
\* timestamp and a sample that does not change isMoving leaves
\* lastTransitionTime unchanged, so that lastTransitionTime is always the
\* timestamp of the most recent change of isMoving (0 if there was none).
C26_TransitionsOnly ==
  [][ /\ movementDetector'.isMoving # movementDetector.isMoving =>
           movementDetector'.lastTransitionTime = TimeAt(input, totalPushed)
      /\ movementDetector'.isMoving = movementDetector.isMoving =>
           movementDetector'.lastTransitionTime = movementDetector.lastTransitionTime ]_vars


\* C28: for every calibration set whose shooting profile is non-null, the
\* single-pattern profile with every std 0 included, classify accepts the
\* candidate whose twelve features equal the shooting profile's means.
C28_CentreIsShot ==
  ( /\ Classified
    /\ \A k \in FeatureKeys :
         calibCall.features[k] =
           Rat(calibCall.calibration.profiles["shooting"].stats[k].mean, 1) )
  => calibCall.result.isShot


\* the occurrences of the recording's first event in a list of shots
AtFirstEvent(shots) == {a \in DOMAIN shots : shots[a].idx = PeakPos(input, 1)}

\* C21: the dip of a shot at peak index i is the minimum aMag over the 35
\* samples i+1 .. i+35 and its recovery is the maximum aMag over the 30
\* samples dip+1 .. dip+30; an event whose minimum lies exactly 35 samples
\* after the peak, or whose maximum lies exactly 30 samples after the dip, is
\* found by detectAll with that minimum and that maximum.
C21_WindowExtents ==
  \A r \in DOMAIN batchRuns :
    /\ \A a \in DOMAIN batchRuns[r] :
         LET s == batchRuns[r][a]
             dip == FirstMin(Signal, s.idx + 1, s.idx + DIP_SEARCH_WINDOW + 1)
         IN  /\ s.dipMag = At(Signal, dip)
             /\ s.recoveryMag = MaxFrom(Signal, dip + 1, dip + RECOVERY_SEARCH_WINDOW + 1)
    /\ input \in WindowInputs =>
         \E a \in AtFirstEvent(batchRuns[r]) :
           /\ batchRuns[r][a].dipMag = GoodShape.dip
           /\ batchRuns[r][a].recoveryMag = GoodShape.rec


\* C22: for every index the stream scans (buffer positions len-90 up to
\* len-50) that qualifies as a peak, the dip search window and the recovery
\* search window after the found dip end inside the buffer, and the
\* recoveryMag of every streamed shot is the maximum over the full recovery
\* window of the recording.
C22_FullLookAhead ==
  LET len == Len(data)
      aMags == ArrayOf([k \in 1..len |-> data[k].aMag], len)
  IN  /\ len >= SCAN_START_OFFSET + BASELINE_WINDOW + BASELINE_OFFSET =>
           \A i \in (len - SCAN_START_OFFSET)..(len - SCAN_END_OFFSET - 1) :
             ( /\ IsLocalMax(aMags, i)
               /\ PeakGate(aMags, i, Baseline(aMags, Max(0, i - BASELINE_OFFSET))) )
             => /\ i + DIP_SEARCH_WINDOW <= len
                /\ FindDip(aMags, i, len) + RECOVERY_SEARCH_WINDOW <= len
      /\ \A a \in DOMAIN liveShots :
           liveShots[a].recoveryMag =
             At(Signal, FindRec(Signal, FindDip(Signal, liveShots[a].idx, SigLen), SigLen))


\* the peak indices below the recording's length - 90 of a list of shots
FullLookAheadPeaks(shots) ==
  {shots[a].idx : a \in {b \in DOMAIN shots : shots[b].idx < SigLen - SCAN_START_OFFSET}}

\* C23: once the whole recording has been replayed through the stream
\* (post-filters off), the peak indices below length - 90 reported by the
\* stream are exactly those detectAll reports on the same recording.
C23_StreamMatchesBatch ==
  totalPushed = SigLen =>
    \A r \in DOMAIN batchRuns :
      FullLookAheadPeaks(liveShots) = FullLookAheadPeaks(batchRuns[r])


\* the detector with both post-filters switched off
Unfiltered == [Detector EXCEPT !.useConsensus = FALSE, !.calibration = NullCalibration]

\* a post-filter is enabled on the detector
Filtering == useConsensus \/ ~calibration.null

\* the shot record carries no rejection by a post-filter
NotRejected(s) ==
  /\ useConsensus => s.consensus.isShot
  /\ s.calibResult # NullCalibResult => s.calibResult.isShot

\* index i of the recording passes, taken alone, the gates and the
\* post-filters of detectAll on detector det
PassesAlone(det, i) ==
  BatchCandidate(Imu(input), Signal, det, i, NegInfinity, 0).accept

\* shot u puts index i inside the separation gates of detectAll
Suppresses(u, i) ==
  /\ u.idx < i
  /\ \/ i - u.idx < MIN_SHOT_SAMPLES
     \/ TimeAt(input, i) - u.t < MIN_SHOT_INTERVAL_MS /\ u.t > 0

\* C24: a candidate rejected by the consensus voter or by the calibration
\* classifier is not emitted and leaves the separation state as it was: no
\* shot record carries a rejection, the stream changes lastShotTime and
\* lastShotIdx only on a call that emits a shot, and detectAll leaves out an
\* index that passes the gates and the filters only within the separation
\* gates of a shot it returned.
C24_RejectionLeavesNoTrace ==
  [][ /\ \A s \in AllShots' : NotRejected(s)
      /\ liveShots' = liveShots => (lastShotTime' = lastShotTime /\ lastShotIdx' = lastShotIdx)
      /\ batchRuns' # batchRuns =>
           LET shots == batchRuns'[Len(batchRuns')]
               end == SigLen - DIP_SEARCH_WINDOW - RECOVERY_SEARCH_WINDOW
           IN  \A i \in (BASELINE_WINDOW + BASELINE_OFFSET)..(end - 1) :
                 ( /\ PassesAlone(Detector, i)
                   /\ \A a \in DOMAIN shots : shots[a].idx # i )
                 => \E a \in DOMAIN shots : Suppresses(shots[a], i) ]_vars

\* the first event passes the gates and is rejected by a post-filter; the
\* second event, 30 samples later, is reported by the stream and by detectAll
C24_Witness ==
  /\ Filtering
  /\ input.layout = <<0, 30>>
  /\ PassesAlone(Unfiltered, FirstPeak) /\ ~PassesAlone(Detector, FirstPeak)
  /\ Len(liveShots) = 1 /\ liveShots[1].idx = FirstPeak + 30
  /\ lastShotIdx = FirstPeak + 30
  /\ batchRuns # << >> /\ Len(batchRuns[1]) = 1 /\ batchRuns[1][1].idx = FirstPeak + 30


\* the peak indices of a list of shots
PeakIndices(shots) == {shots[a].idx : a \in DOMAIN shots}

\* C27 as stated: the peak indices detectAll returns with the consensus voter
\* or a calibration set enabled are a subset of those it returns on the same
\* recording with both post-filters disabled.
C27_FilteredSubset ==
  [][ batchRuns' # batchRuns =>
        PeakIndices(batchRuns'[Len(batchRuns')])
          \subseteq PeakIndices(detectAll(Imu(input), Unfiltered)) ]_vars

\* C27 as amended: every peak index detectAll returns with a post-filter
\* enabled is either returned with both post-filters disabled or lies within
\* the separation gates (less than 60 samples or less than 1200 ms) after a
\* shot returned with both post-filters disabled.
C27_FilteredOrSuppressed ==
  [][ batchRuns' # batchRuns =>
        LET plain == detectAll(Imu(input), Unfiltered)
        IN  \A i \in PeakIndices(batchRuns'[Len(batchRuns')]) :
              \/ i \in PeakIndices(plain)
              \/ \E a \in DOMAIN plain : Suppresses(plain[a], i) ]_vars

\* a filtered run that returned the second of two events 30 samples apart,
\* where the unfiltered run returns the first
C27_Witness ==
  /\ Filtering
  /\ batchRuns # << >>
  /\ PeakIndices(batchRuns[1]) = {FirstPeak + 30}
  /\ PeakIndices(detectAll(Imu(input), Unfiltered)) = {FirstPeak}


\* C25: every peak index detectAll accepts on a recording (post-filters off)
\* is the idx of a pattern extractPatterns returns on the same recording.
C25_PatternsCoverShots ==
  calibCall.method = "extractPatterns" =>
    PeakIndices(detectAll(Recording(input, calibCall.len), FreshDetector))
      \subseteq PeakIndices(calibCall.result)


\* C29: from a cancelMotionCal that ended the wizard run until the next
\* startMotionCal, no calibration step is started, finishMotionCal does not
\* run, and no calibration set is written to the store or to
\* shotDetector.calibration (which change only by the user clearing them and
\* by startRecording loading the stored set).
C29_CancelIsFinal ==
  [][ (tracker.cancelled /\ tracker'.cancelled) =>
        /\ tracker'.entered = tracker.entered
        /\ tracker'.finishes = tracker.finishes
        /\ tracker'.storage \in {tracker.storage, NullCalibration}
        /\ calibration' \in {calibration, NullCalibration, tracker.storage} ]_vars

\* C30: in a wizard run that is not cancelled the steps are entered one at a
\* time in the order walking, running, dribbling, shooting, each once, and
\* finishMotionCal runs at most once, after all four.
C30_OneStepAtATime ==
  ~tracker.cancelled =>
    /\ Len(tracker.entered) <= Len(CALIB_STEPS)
    /\ \A n \in DOMAIN tracker.entered : tracker.entered[n] = n - 1
    /\ tracker.finishes <= 1
    /\ tracker.finishes = 1 => Len(tracker.entered) = Len(CALIB_STEPS)

====
